---- MODULE Spec2Model ----
(***************************************************************************)
(* RISC OS Phoenix kernel core: per-CPU scheduler (kernel/sched.c), task   *)
(* lifecycle (kernel/task.c), boot paths (kernel/boot.c, kernel/kernel.c), *)
(* IPI layer (kernel/irq.c) and page-table duplication (kernel/mmu.c).     *)
(*                                                                         *)
(* Tasks are heap objects addressed by small integers; 0 is the NULL       *)
(* pointer and the idle task of core c is the negative id -(c+1).  The run *)
(* queue is kept exactly as the code keeps it: head/tail per core and the  *)
(* raw next/prev fields of every task.                                     *)
(***************************************************************************)
EXTENDS Integers, Sequences, FiniteSets, TLC

\* ---------------------------------------------------------------- bounds
MaxTasks == 2            \* task control blocks kmalloc can hand out
MaxForkTasks == 4        \* the same, in the runs where two tasks fork
PT_ENTRIES == 2          \* entries per page-table node (512 in mmu.c)
USER_STACK_PAGES == 1    \* USER_STACK_SIZE / PAGE_SIZE (2048 in task.c)
MaxMapPages == 2         \* pages one mmu_map call is asked to map
MaxPhysPages == 8        \* physical pages phys_alloc_page can hand out

\* ------------------------------------------------------- program constants
TASK_MIN_PRIORITY == 0
TASK_MAX_PRIORITY == 255

Cpus == {0, 1}           \* cores found by detect_nr_cpus()
Prios == {3, 5, 10}      \* priorities handed to task_create
PIPE_BUFFER_SIZE == 3    \* bytes of a pipe buffer (4096 in pipe.c)
MaxWritten == 4          \* bytes written to the pipe before writers stop
MaxPid == 4              \* fork calls that fail after taking a pid stop here
INT_MAX == 2147483647
INT_MIN == (0 - INT_MAX) - 1
NULL == 0
Tasks == 1..MaxForkTasks
IdleOf(c) == -(c + 1)
IdleTasks == {IdleOf(c) : c \in Cpus}
AllTasks == Tasks \cup IdleTasks
Fuel == Cardinality(AllTasks) + 1

TASK_RUNNING == "RUNNING"
TASK_READY == "READY"
TASK_BLOCKED == "BLOCKED"
TASK_ZOMBIE == "ZOMBIE"

VARIABLES
    task,          \* task id -> struct task (kernel.h)
    cpu_sched,     \* core -> cpu_sched_t (sched.c); schedule_count, a diagnostic
                   \* counter that no decision reads, is left out
    current_task,  \* the single global `current_task` (kernel.c)
    next_pid,      \* static next_pid (task.c)
    pc,            \* core -> "run" | "spin" (busy-waiting on a held lock) | "hang"
    exec,          \* core -> the task whose code the core executes: the one it
                   \* last left to through `eret`, its idle task (the boot
                   \* code and idle loop) before that
    sgi,           \* core -> the software-generated interrupts pending on it
    booted,        \* kernel_main has created init
    ev,            \* history: what the last operation did
    enq_log,       \* history: per core, the enqueue_task calls made on its
                   \* queue in order, as long as every task was enqueued once
    pgt,           \* page-table nodes handed out by pt_alloc_level, in order:
                   \* node n is pgt[n], an array of PT_ENTRIES entries
    pgtable_l0,    \* task id -> task->pgtable_l0 (node number, NULL if none)
    refcount,      \* physical pages handed out by phys_alloc_page, in order:
                   \* refcount[p] is the reference count of page p
    kfreed,        \* page-table nodes that were handed to kfree
    pt_ev,         \* history: what the last page-table operation did
    elr_el1,       \* task id -> task->elr_el1, the entry point it resumes at
    pipe,          \* the pipe_buffer_t of the one pipe (pipe.c)
    pipe_ev        \* history: what the last pipe operation did, and how many
                   \* bytes went into and came out of the pipe so far

sched_vars ==
    <<task, cpu_sched, current_task, next_pid, pc, exec, sgi, booted, ev, enq_log>>

pt_vars == <<pgt, pgtable_l0, refcount, kfreed, pt_ev, elr_el1>>

io_vars == <<pipe, pipe_ev>>

vars == <<sched_vars, pt_vars, io_vars>>

\* signal.c: signal numbers are 1..NSIG-1; the two handler values that are
\* not addresses of user code
NSIG == 32
SIG_DFL == 0
SIG_IGN == 1

\* signal_state_t after memset: a 64-bit mask is the set of its set bits, and
\* handlers holds the entries that were written, every other one of the
\* NSIG being the zero of memset, SIG_DFL.  sigreturn_sp and the signal frame
\* built on the user stack are left out: no decision reads them
ZeroSignalState ==
    [handlers |-> <<>>, pending |-> {}, blocked |-> {}, old_mask |-> {}]

\* task->signal_state.handlers[sig]
handler_of(ss, sig) ==
    IF sig \in DOMAIN ss.handlers THEN ss.handlers[sig] ELSE SIG_DFL

\* memset(task, 0, sizeof(task_t)), with `alloc` telling a live block.
\* `blocked` is the member signal.c names task->blocked, which is not
\* task->signal_state.blocked
ZeroTask ==
    [alloc |-> FALSE, state |-> TASK_RUNNING, priority |-> 0, next |-> NULL,
     prev |-> NULL, cpu_affinity |-> {}, pid |-> 0, parent |-> NULL,
     children |-> <<>>, x0 |-> 0, signal_state |-> ZeroSignalState,
     blocked |-> {}]

\* __builtin_ctzll(mask): index of the lowest set bit
Ctz(mask) == CHOOSE c \in mask : \A d \in mask : c <= d

\* sched_init_cpu: the idle task
IdleTask ==
    [ZeroTask EXCEPT !.alloc = TRUE, !.pid = -1, !.state = TASK_RUNNING,
                     !.priority = TASK_MAX_PRIORITY]

sched_init_cpu(c) ==
    [current |-> IdleOf(c), idle_task |-> IdleOf(c), runqueue_head |-> NULL,
     runqueue_tail |-> NULL, lock |-> 0, cpu_id |-> c]

\* no interrupt taken, no send_ipi or irq_handler yet
NoMessage == [intid |-> 0 - 1, ipi_id |-> 0, arg |-> 0]

NoIrqEvent ==
    [op |-> "none", cpu |-> 0, target_cpus |-> {}, ipi_id |-> 0, arg |-> 0,
     issued |-> <<>>, msg |-> NoMessage, handler_arg |-> 0, did |-> "none",
     page |-> 0]

NoEvent ==
    [op |-> "none", cpu |-> 0, arg |-> NULL, new_state |-> "none",
     status |-> "done", prev |-> NULL, next |-> NULL, entry_state |-> "none",
     entry_queue |-> <<>>, entry_ready |-> {}, priority |-> 0,
     fail |-> "none", ret |-> 0, caller |-> NULL,
     affinity |-> {}, irq |-> NoIrqEvent, access_lock |-> 0,
     prev_state |-> "none", counted |-> 0, sig |-> 0, pid |-> 0,
     entry_task |-> <<>>, did |-> "none"]

OpEvent(op, c, t, status) ==
    [NoEvent EXCEPT !.op = op, !.cpu = c, !.arg = t, !.status = status]

\* --------------------------------------------- pipe buffers (pipe.c)

\* the bytes of pipe_buffer_t.data
PipeIdx == 0..(PIPE_BUFFER_SIZE - 1)

\* no pipe yet: the kmalloc'ed block of pipe() does not exist
ZeroPipe ==
    [alloc |-> FALSE, data |-> [i \in PipeIdx |-> 0], read_pos |-> 0,
     write_pos |-> 0, count |-> 0, lock |-> 0, read_waiter |-> NULL,
     write_waiter |-> NULL]

\* history of a pipe operation: its arguments, the pipe it found, the bytes
\* it copied out (buf), what it returned, and the number of bytes written to
\* and read from the pipe since it was created
NoPipeEvent ==
    [op |-> "none", cpu |-> 0, count |-> 0, nonblock |-> FALSE, ret |-> 0,
     buf |-> <<>>, entry |-> ZeroPipe, status |-> "none", wrote |-> 0,
     taken |-> 0]

\* ---------------------------------------------------- page tables (mmu.c)

PROT_NONE == 0
PROT_READ == 1
PROT_WRITE == 2
PROT_EXEC == 4

PtIdx == 0..(PT_ENTRIES - 1)
\* the L0 entries of the lower (user) half: 0..255 of 512
LowerIdx == 0..((PT_ENTRIES \div 2) - 1)
\* virtual page numbers: four index slices of a 48-bit address above bit 12
VPages == 0..(PT_ENTRIES * PT_ENTRIES * PT_ENTRIES * PT_ENTRIES - 1)

Pow(level) ==
    IF level = 3 THEN 1
    ELSE IF level = 2 THEN PT_ENTRIES
    ELSE IF level = 1 THEN PT_ENTRIES * PT_ENTRIES
    ELSE PT_ENTRIES * PT_ENTRIES * PT_ENTRIES

\* (va >> Ln_SHIFT) & (PT_ENTRIES - 1)
IdxAt(va, level) == (va \div Pow(level)) % PT_ENTRIES

LowerHalf == {va \in VPages : IdxAt(va, 0) \in LowerIdx}

\* stack_base = 0x0000fffffffff000: the last page of the address space
StackBase == PT_ENTRIES * PT_ENTRIES * PT_ENTRIES * PT_ENTRIES - 1

\* an entry of a zeroed table; `table` is bit 1 (PTE_TABLE, PTE_PAGE at L3),
\* `ro` is PTE_RO and `cow` is PTE_COW
ZeroPte ==
    [valid |-> FALSE, table |-> FALSE, addr |-> 0, user |-> FALSE, uxn |-> FALSE,
     ro |-> FALSE, cow |-> FALSE]

\* history of a page-table operation: its arguments, the root, tables and
\* reference counts it started from, the memory right after its first
\* mmu_walk_pte returned, the pages it handed to phys_free_page, and the
\* operation before it
NoPtEvent ==
    [op |-> "none", task |-> NULL, child |-> NULL, l0 |-> NULL, pgt |-> <<>>,
     refcount |-> <<>>, virt |-> 0, size |-> 0, tlb_virt |-> 0, tlb_size |-> 0,
     walked |-> [pgt |-> <<>>, refcount |-> <<>>], phys_freed |-> {},
     fault_rc |-> <<>>, copies |-> 0, ret |-> 0, hdr |-> <<>>,
     freed_user |-> FALSE, nomem |-> FALSE, prot |-> 0, guard |-> FALSE,
     prev_op |-> "none", prev_task |-> NULL, prev_child |-> NULL]

Init ==
    /\ pgt = <<>>
    /\ kfreed = {}
    /\ pgtable_l0 = [t \in Tasks |-> NULL]
    /\ refcount = <<>>
    /\ pt_ev = NoPtEvent
    /\ elr_el1 = [t \in Tasks |-> 0]
    /\ task = [t \in AllTasks |-> IF t \in IdleTasks THEN IdleTask ELSE ZeroTask]
    /\ cpu_sched = [c \in Cpus |-> sched_init_cpu(c)]
    /\ current_task = NULL
    /\ next_pid = 1
    /\ pc = [c \in Cpus |-> "run"]
    /\ exec = [c \in Cpus |-> IdleOf(c)]
    /\ sgi = [c \in Cpus |-> {}]
    /\ booted = FALSE
    /\ ev = NoEvent
    /\ enq_log = [c \in Cpus |-> [once |-> TRUE, order |-> <<>>]]
    /\ pipe = ZeroPipe
    /\ pipe_ev = NoPipeEvent

\* ------------------------------------------------------------ run queue

\* the scan with a strict comparison: a task goes before its equals
RECURSIVE ScanPos_Strict(_, _, _, _, _)
ScanPos_Strict(T, pos, prev, prio, fuel) ==
    IF pos = NULL \/ ~(T[pos].priority < prio)
    THEN [prev |-> prev, hang |-> FALSE]
    ELSE IF fuel = 0
    THEN [prev |-> prev, hang |-> TRUE]
    ELSE ScanPos_Strict(T, T[pos].next, pos, prio, fuel - 1)

\* the while loop of enqueue_task: first position whose priority is greater
RECURSIVE ScanPos(_, _, _, _, _)
ScanPos(T, pos, prev, prio, fuel) ==
    IF pos = NULL \/ ~(T[pos].priority <= prio)
    THEN [prev |-> prev, hang |-> FALSE]
    ELSE IF fuel = 0
    THEN [prev |-> prev, hang |-> TRUE]
    ELSE ScanPos(T, T[pos].next, pos, prio, fuel - 1)

\* The kernel operations below work on a record K = [T |-> task heap,
\* S |-> per-core schedulers]; their results carry the same two fields.

\* enqueue_task: the insertion after `prev`, or at the head when prev is NULL
enqueue_at(T1, S, c, t, head, prev) ==
    IF prev = NULL
    THEN [T |-> [[T1 EXCEPT ![t].next = head] EXCEPT ![head].prev = t],
          S |-> [S EXCEPT ![c].runqueue_head = t],
          hang |-> FALSE]
    ELSE LET pn == T1[prev].next        \* prev->next before the insertion
             T3 == [[T1 EXCEPT ![t].next = pn] EXCEPT ![t].prev = prev]
         IN  IF T3[prev].next # NULL
             THEN [T |-> [[T3 EXCEPT ![T3[prev].next].prev = t]
                              EXCEPT ![prev].next = t],
                   S |-> S, hang |-> FALSE]
             ELSE [T |-> [T3 EXCEPT ![prev].next = t],
                   S |-> [S EXCEPT ![c].runqueue_tail = t],
                   hang |-> FALSE]

\* enqueue_task once state and next are written and the queue is not empty
enqueue_scan(T1, S, c, t, sc) ==
    IF sc.hang
    THEN [T |-> T1, S |-> S, hang |-> TRUE]
    ELSE enqueue_at(T1, S, c, t, S[c].runqueue_head, sc.prev)

enqueue_nonempty(T1, S, c, t) ==
    enqueue_scan(T1, S, c, t,
                 ScanPos(T1, S[c].runqueue_head, NULL, T1[t].priority, Fuel))

\* enqueue_task(sched, task)
enqueue_task(K, c, t) ==
    IF K.S[c].runqueue_head = NULL
    THEN [T |-> [K.T EXCEPT ![t].state = TASK_READY, ![t].next = NULL,
                            ![t].prev = NULL],
          S |-> [K.S EXCEPT ![c].runqueue_head = t, ![c].runqueue_tail = t],
          hang |-> FALSE]
    ELSE enqueue_nonempty([K.T EXCEPT ![t].state = TASK_READY,
                                      ![t].next = NULL], K.S, c, t)

\* dequeue_task: the second pair of statements (task->next, runqueue_tail)
dequeue_next(T1, S1, c, t) ==
    IF T1[t].next # NULL
    THEN [T |-> [T1 EXCEPT ![T1[t].next].prev = T1[t].prev], S |-> S1]
    ELSE [T |-> T1, S |-> [S1 EXCEPT ![c].runqueue_tail = T1[t].prev]]

\* dequeue_task(sched, task)
dequeue_task(K, c, t) ==
    IF K.T[t].prev # NULL
    THEN dequeue_next([K.T EXCEPT ![K.T[t].prev].next = K.T[t].next], K.S, c, t)
    ELSE dequeue_next(K.T, [K.S EXCEPT ![c].runqueue_head = K.T[t].next], c, t)

\* a pick that takes the head off the queue and does not link it again
pick_next_task_NoReenqueue(K, c) ==
    IF K.S[c].runqueue_head = NULL
    THEN [T |-> K.T, S |-> K.S, hang |-> FALSE]
    ELSE [T |-> dequeue_task(K, c, K.S[c].runqueue_head).T,
          S |-> dequeue_task(K, c, K.S[c].runqueue_head).S, hang |-> FALSE]

\* a pick that puts the idle task in the empty queue before returning it
pick_next_task_EnqueuesIdle(K, c) ==
    IF K.S[c].runqueue_head = NULL
    THEN enqueue_task(K, c, K.S[c].idle_task)
    ELSE enqueue_task(dequeue_task(K, c, K.S[c].runqueue_head), c,
                      K.S[c].runqueue_head)

\* pick_next_task(sched); the task picked is the head at entry (or idle)
pick_next_task(K, c) ==
    IF K.S[c].runqueue_head = NULL
    THEN [T |-> K.T, S |-> K.S, hang |-> FALSE]
    ELSE enqueue_task(dequeue_task(K, c, K.S[c].runqueue_head), c,
                      K.S[c].runqueue_head)

Picked_Tail(S, c) ==
    IF S[c].runqueue_head = NULL THEN S[c].idle_task ELSE S[c].runqueue_tail

Picked(S, c) ==
    IF S[c].runqueue_head = NULL THEN S[c].idle_task ELSE S[c].runqueue_head

\* the run queue of core c read head-to-tail along the next pointers
RECURSIVE Chain(_, _, _)
Chain(T, pos, fuel) ==
    IF pos = NULL \/ fuel = 0 THEN <<>>
    ELSE <<pos>> \o Chain(T, T[pos].next, fuel - 1)

Queue(c) == Chain(task, cpu_sched[c].runqueue_head, Fuel)

Range(s) == {s[i] : i \in 1..Len(s)}

\* history of one more enqueue_task(sched of c, t) call
Logged(L, c, t) ==
    IF L[c].once /\ t \notin Range(L[c].order)
    THEN [L EXCEPT ![c].order = Append(@, t)]
    ELSE [L EXCEPT ![c] = [once |-> FALSE, order |-> <<>>]]

\* ------------------------------------------------------------- schedule()

\* context_switch(prev, next): publishes next in the global current_task and
\* leaves through `eret`; control never comes back to the caller.
context_switch(ct, prev, next) == next

\* schedule() after pick_next_task returned p: the state writes, the switch
\* and the unlock.  status "eret": the core left through context_switch and
\* the unlock after it was never reached; "done": the call returned.
\* counted: how many times the call executed sched->schedule_count++.
schedule_picked(p, ct, c, prev, next) ==
    IF p.hang
    THEN [T |-> p.T, S |-> p.S, ct |-> ct, status |-> "hang",
          prev |-> prev, next |-> NULL, counted |-> 0]
    ELSE IF prev # next
    THEN [T |-> [[p.T EXCEPT ![prev].state = TASK_READY]
                      EXCEPT ![next].state = TASK_RUNNING],
          S |-> [p.S EXCEPT ![c].current = next],
          ct |-> context_switch(ct, prev, next),
          status |-> "eret", prev |-> prev, next |-> next, counted |-> 1]
    ELSE [T |-> [[p.T EXCEPT ![prev].state = TASK_READY]
                      EXCEPT ![next].state = TASK_RUNNING],
          S |-> [p.S EXCEPT ![c].current = next, ![c].lock = 0],
          ct |-> ct, status |-> "done", prev |-> prev, next |-> next,
          counted |-> 1]

\* schedule() on core c.  status "spin": the lock was held on entry and the
\* core busy-waits in spin_lock_irqsave; "hang": the scan of enqueue_task
\* never ends.
schedule(K, ct, c) ==
    IF K.S[c].lock # 0
    THEN [T |-> K.T, S |-> K.S, ct |-> ct, status |-> "spin",
          prev |-> K.S[c].current, next |-> NULL, counted |-> 0]
    ELSE schedule_picked(
             pick_next_task([T |-> K.T, S |-> [K.S EXCEPT ![c].lock = 1]], c),
             ct, c, K.S[c].current, Picked(K.S, c))

\* where the core is after an operation that ended with the given status
PcAfter(status) ==
    IF status \in {"spin", "hang", "fault"} THEN status ELSE "run"

\* history of a schedule() on core c entered with task heap T0: the task it
\* selected, that task's state on entry, the run queue on entry and the
\* tasks in it that were READY
Event(op, c, t, ns, r, T0) ==
    [op |-> op, cpu |-> c, arg |-> t, new_state |-> ns, status |-> r.status,
     prev |-> r.prev, next |-> r.next,
     entry_state |-> IF r.next = NULL THEN "none" ELSE T0[r.next].state,
     entry_queue |-> Chain(T0, cpu_sched[c].runqueue_head, Fuel),
     entry_ready |-> {u \in Range(Chain(T0, cpu_sched[c].runqueue_head, Fuel)) :
                         T0[u].state = TASK_READY},
     priority |-> 0, fail |-> "none", ret |-> 0, caller |-> NULL,
     affinity |-> {}, irq |-> NoIrqEvent, access_lock |-> 0,
     prev_state |-> T0[r.prev].state, counted |-> r.counted, sig |-> 0,
     pid |-> 0, entry_task |-> <<>>, did |-> "none"]

CanSchedule(c) == pc[c] = "run"

\* the code running on core c is a task's: task_block and fork are reached
\* from a task's system calls (pipe_read, select, poll, fork)
InTask(c) == pc[c] = "run" /\ exec[c] \in Tasks

\* pick_next_task re-enqueues the head it took
LogAfterSchedule(c, r) ==
    IF r.status # "spin" /\ cpu_sched[c].runqueue_head # NULL
    THEN Logged(enq_log, c, cpu_sched[c].runqueue_head)
    ELSE enq_log

\* the state after a schedule() on core c whose result is r
\* and whose history is e
ScheduledAs(c, r, e) ==
    /\ task' = r.T
    /\ cpu_sched' = r.S
    /\ current_task' = r.ct
    /\ pc' = [pc EXCEPT ![c] = PcAfter(r.status)]
    /\ exec' = IF r.status = "eret" THEN [exec EXCEPT ![c] = r.next] ELSE exec
    /\ ev' = e
    /\ enq_log' = LogAfterSchedule(c, r)

Scheduled(c, op, t, ns, r, T0) == ScheduledAs(c, r, Event(op, c, t, ns, r, T0))

\* schedule() entered from yield(), the idle loops of boot.c or kernel_main
Schedule(c) ==
    /\ CanSchedule(c)
    /\ Scheduled(c, "schedule", NULL, "none",
                 schedule([T |-> task, S |-> cpu_sched], current_task, c), task)
    /\ UNCHANGED <<next_pid, sgi, booted, pt_vars, io_vars>>

\* task_block: current_task->state = new_state
task_block(T, ct, new_state) == [T EXCEPT ![ct].state = new_state]

\* task_block(new_state) called by the code running on core c
TaskBlock(c, new_state) ==
    /\ InTask(c)
    /\ current_task # NULL
    /\ Scheduled(c, "task_block", current_task, new_state,
                 schedule([T |-> task_block(task, current_task, new_state),
                           S |-> cpu_sched], current_task, c),
                 task_block(task, current_task, new_state))
    /\ UNCHANGED <<next_pid, sgi, booted, pt_vars, io_vars>>

\* ------------------------------------------------------------- irq.c

IPI_TLB_SHOOTDOWN == 1
IPI_RESCHEDULE == 2
PAGE_SHIFT == 12

\* an unsigned value n << k as the set of the bit positions that are 1
RECURSIVE Shl(_, _)
Shl(n, k) ==
    IF n = 0 THEN {}
    ELSE (IF n % 2 = 1 THEN {k} ELSE {}) \cup Shl(n \div 2, k + 1)

\* the value of bits lo..hi of a register value
RECURSIVE Field(_, _, _)
Field(v, lo, hi) ==
    IF lo > hi THEN 0
    ELSE (IF lo \in v THEN 1 ELSE 0) + 2 * Field(v, lo + 1, hi)

\* send_ipi: val = (1ULL << 40) | ((uint64_t)cpu << 16) | ipi_id
sgi1r_val(cpu, ipi_id) == Shl(1, 40) \cup Shl(cpu, 16) \cup Shl(ipi_id, 0)

\* send_ipi(target_cpus, ipi_id, arg), the loop from core `cpu` on: the
\* writes to sgi1r_el1 in order, each with the dsb that follows it. arg is
\* not used.
RECURSIVE send_ipi(_, _, _, _)
send_ipi(cpu, target_cpus, ipi_id, arg) ==
    IF cpu \notin Cpus THEN <<>>
    ELSE (IF cpu \in target_cpus
          THEN <<[val |-> sgi1r_val(cpu, ipi_id), dsb |-> TRUE]>>
          ELSE <<>>) \o send_ipi(cpu + 1, target_cpus, ipi_id, arg)

\* msr sgi1r_el1 (GICv3 ICC_SGI1R_EL1): the interrupt number is INTID, bits
\* 27..24
sgi_intid(val) == Field(val, 24, 27)

\* msr sgi1r_el1 written on core self: with IRM (bit 40) set the interrupt
\* goes to every core but the writer; with IRM clear to the cores of
\* TargetList (bits 15..0) in the cluster Aff3.Aff2.Aff1 (bits 55..48,
\* 39..32, 23..16), core c being number c of cluster 0
sgi_targets(self, val) ==
    IF 40 \in val THEN Cpus \ {self}
    ELSE IF Field(val, 16, 23) = 0 /\ Field(val, 32, 39) = 0
            /\ Field(val, 48, 55) = 0
    THEN {c \in Cpus : c \in val}
    ELSE {}

\* an interrupt in flight: the number the controller delivers, and the
\* kind and argument its sender passed to send_ipi
Message(val, ipi_id, arg) ==
    [intid |-> sgi_intid(val), ipi_id |-> ipi_id, arg |-> arg]

\* the pending interrupts after the writes `issued` made on core self
RECURSIVE Delivered(_, _, _, _, _)
Delivered(P, self, issued, ipi_id, arg) ==
    IF issued = <<>> THEN P
    ELSE Delivered([c \in Cpus |->
                       IF c \in sgi_targets(self, Head(issued).val)
                       THEN P[c] \cup {Message(Head(issued).val, ipi_id, arg)}
                       ELSE P[c]],
                   self, Tail(issued), ipi_id, arg)

SendEvent(c, target_cpus, ipi_id, arg) ==
    [NoIrqEvent EXCEPT !.op = "send_ipi", !.cpu = c,
                       !.target_cpus = target_cpus, !.ipi_id = ipi_id,
                       !.arg = arg,
                       !.issued = send_ipi(0, target_cpus, ipi_id, arg)]

\* send_ipi(target_cpus, ipi_id, arg) called on core c
SendIpi(c, target_cpus, ipi_id, arg) ==
    /\ pc[c] = "run"
    /\ sgi' = Delivered(sgi, c, send_ipi(0, target_cpus, ipi_id, arg),
                        ipi_id, arg)
    /\ ev' = [OpEvent("send_ipi", c, NULL, "done") EXCEPT
                 !.irq = SendEvent(c, target_cpus, ipi_id, arg)]
    /\ UNCHANGED <<task, cpu_sched, current_task, next_pid, pc, exec, booted,
                   enq_log, pt_vars, io_vars>>

\* ipi_handler(ipi_id, arg): what the switch does
ipi_handler(ipi_id, arg) ==
    IF ipi_id = IPI_TLB_SHOOTDOWN
    THEN IF arg = 0 THEN [did |-> "tlbi vmalle1", page |-> 0]
         ELSE [did |-> "tlbi vae1", page |-> arg \div (2 ^ PAGE_SHIFT)]
    ELSE IF ipi_id = IPI_RESCHEDULE THEN [did |-> "schedule", page |-> 0]
    ELSE [did |-> "none", page |-> 0]

HandlerEvent(c, m, arg) ==
    [NoIrqEvent EXCEPT !.op = "irq_handler", !.cpu = c, !.msg = m,
                       !.handler_arg = arg,
                       !.did = ipi_handler(m.intid, arg).did,
                       !.page = ipi_handler(m.intid, arg).page]

\* irq_handler on core c taking the pending interrupt m:
\* irq = iar & 0x3FF; if (irq < 16) ipi_handler(irq, 0)
IrqHandler(c, m) ==
    /\ CanSchedule(c)
    /\ m \in sgi[c]
    /\ sgi' = [sgi EXCEPT ![c] = @ \ {m}]
    /\ IF ipi_handler(m.intid, 0).did = "schedule"
       THEN ScheduledAs(c, schedule([T |-> task, S |-> cpu_sched],
                                    current_task, c),
                        [Event("ipi", c, NULL, "none",
                               schedule([T |-> task, S |-> cpu_sched],
                                        current_task, c), task)
                            EXCEPT !.irq = HandlerEvent(c, m, 0)])
       ELSE /\ ev' = [OpEvent("irq_handler", c, NULL, "done") EXCEPT
                         !.irq = HandlerEvent(c, m, 0)]
            /\ UNCHANGED <<task, cpu_sched, current_task, pc, exec, enq_log>>
    /\ UNCHANGED <<next_pid, booted, pt_vars, io_vars>>

\* ------------------------------------------------------------ task.c

FreeSlots == {t \in Tasks : ~task[t].alloc}
\* kmalloc(sizeof(task_t)): a block that is not in use
NewTask == CHOOSE t \in FreeSlots : \A u \in FreeSlots : t <= u

\* spin_unlock_irqrestore(&sched->lock) after an enqueue_task that returned
unlock_after(e, cpu) ==
    IF e.hang
    THEN [T |-> e.T, S |-> e.S, status |-> "hang"]
    ELSE [T |-> e.T, S |-> [e.S EXCEPT ![cpu].lock = 0], status |-> "done"]

\* the locked section shared by task_create, fork and task_wakeup:
\* spin_lock_irqsave(&sched->lock); [enqueue_task]; spin_unlock_irqrestore
LockedEnqueue(K, cpu, t, doit) ==
    IF K.S[cpu].lock # 0
    THEN [T |-> K.T, S |-> K.S, status |-> "spin"]
    ELSE IF ~doit
    THEN [T |-> K.T, S |-> K.S, status |-> "done"]
    ELSE unlock_after(
             enqueue_task([T |-> K.T, S |-> [K.S EXCEPT ![cpu].lock = 1]],
                          cpu, t), cpu)

LogAfterEnqueue(cpu, t, r, doit) ==
    IF r.status # "spin" /\ doit THEN Logged(enq_log, cpu, t) ELSE enq_log

\* the task control block task_create builds before it takes the lock
CreatedTask(c, priority, cpu_affinity, pid) ==
    [ZeroTask EXCEPT !.alloc = TRUE, !.pid = pid, !.priority = priority,
                     !.state = TASK_READY,
                     !.cpu_affinity = IF cpu_affinity # {} THEN cpu_affinity
                                      ELSE {c}]

\* an enqueue on the calling core whatever the affinity mask says
TargetCpu_Caller(c, cpu_affinity) == c

\* the core task_create enqueues on: the first affinity CPU
TargetCpu(c, cpu_affinity) ==
    Ctz(IF cpu_affinity # {} THEN cpu_affinity ELSE {c})

\* a read of next_pid with the incremented value never stored
atomic_add_fetch_LostUpdate(v) == v

\* __atomic_add_fetch(&next_pid, 1, __ATOMIC_SEQ_CST) on an int: the new value
atomic_add_fetch(v) == IF v = INT_MAX THEN INT_MIN ELSE v + 1

\* the allocations of task_create whose result it tests: the task control
\* block, the kernel stack and the user stack
CheckedAllocs == {"task", "kernel_stack", "user_stack"}

\* the allocation that fails in a task_create call: none, a tested one, or
\* phys_alloc_page under mmu_init_task, whose result nobody tests
CreateAllocs == {"none", "page"} \cup CheckedAllocs

\* task_create(name, entry, priority, cpu_affinity) called on core c
task_create(K, c, t, priority, cpu_affinity, pid, fail) ==
    IF fail \in CheckedAllocs
    THEN [T |-> K.T, S |-> K.S, status |-> "nomem"]
    ELSE LockedEnqueue([T |-> [K.T EXCEPT ![t] =
                                  CreatedTask(c, priority, cpu_affinity, pid)],
                        S |-> K.S],
                       TargetCpu(c, cpu_affinity), t, TRUE)

\* the state after the locked enqueue of t on core cpu ended with result r;
\* e is the history of the call
Enqueued(c, e, cpu, t, r, doit) ==
    /\ task' = r.T
    /\ cpu_sched' = r.S
    /\ pc' = [pc EXCEPT ![c] = PcAfter(r.status)]
    /\ UNCHANGED exec
    /\ ev' = [e EXCEPT
                 !.status = r.status,
                 !.entry_state = task[t].state,
                 !.entry_queue = Chain(task, cpu_sched[cpu].runqueue_head, Fuel)]
    /\ enq_log' = LogAfterEnqueue(cpu, t, r, doit)

\* history of a task_create call
CreateEvent(c, t, priority, fail) ==
    [OpEvent("task_create", c, IF fail \in CheckedAllocs THEN NULL ELSE t,
             "done") EXCEPT !.priority = priority, !.fail = fail,
                            !.caller = exec[c]]

TaskCreate(c, priority, cpu_affinity, fail) ==
    /\ pc[c] = "run"
    /\ FreeSlots # {}
    /\ Enqueued(c, [CreateEvent(c, NewTask, priority, fail) EXCEPT
                       !.affinity = cpu_affinity],
                TargetCpu(c, cpu_affinity), NewTask,
                task_create([T |-> task, S |-> cpu_sched], c, NewTask,
                            priority, cpu_affinity,
                            atomic_add_fetch(next_pid), fail),
                fail \notin CheckedAllocs)
    /\ next_pid' = IF fail \in CheckedAllocs THEN next_pid
                   ELSE atomic_add_fetch(next_pid)
    /\ UNCHANGED <<current_task, sgi, booted, pt_vars, io_vars>>

\* fork up to the scheduler lock: the child is a copy of the parent's block
\* with its own pid, parent link, state and x0, and joins parent->children
fork_child(T, parent, child, pid) ==
    [[T EXCEPT ![child] = [T[parent] EXCEPT !.pid = pid, !.parent = parent,
                                            !.state = TASK_READY, !.x0 = 0]]
        EXCEPT ![parent].children = Append(@, child)]

\* the allocation that fails in a fork call: none, the child's control
\* block, the root of its page table, its kernel stack or the grown child
\* list
ForkAllocs == {"none", "child", "pagetable", "new_stack", "children"}

\* krealloc failed: parent->children was assigned NULL before the test
children_lost(T, parent) == [T EXCEPT ![parent].children = <<>>]

\* fork(), with parent = current_task, called on core c; trap tells whether
\* the memset through the NULL that pt_alloc_level got faults
fork(K, c, parent, child, pid, fail, trap) ==
    IF fail = "child" THEN [T |-> K.T, S |-> K.S, status |-> "nomem"]
    ELSE IF fail = "pagetable" /\ trap
    THEN [T |-> [K.T EXCEPT ![child] = [K.T[parent] EXCEPT
                    !.pid = pid, !.parent = parent, !.state = TASK_READY]],
          S |-> K.S, status |-> "fault"]
    ELSE IF fail \in {"pagetable", "new_stack"}
    THEN [T |-> K.T, S |-> K.S, status |-> "nomem"]
    ELSE IF fail = "children"
    THEN [T |-> children_lost(
                    [K.T EXCEPT ![child] = [K.T[parent] EXCEPT
                        !.pid = pid, !.parent = parent,
                        !.state = TASK_READY, !.x0 = 0]], parent),
          S |-> K.S, status |-> "nomem"]
    ELSE LockedEnqueue([T |-> fork_child(K.T, parent, child, pid),
                        S |-> K.S], c, child, TRUE)

\* history of a fork call: what it returned
ForkEvent(c, t, fail, status) ==
    [OpEvent("fork", c, IF fail = "none" THEN t ELSE NULL, "done") EXCEPT
        !.fail = fail, !.caller = exec[c],
        !.ret = IF status = "done" THEN atomic_add_fetch(next_pid) ELSE 0 - 1]

\* fork() called by the code running on core c
Fork(c, fail, trap) ==
    /\ InTask(c)
    /\ current_task # NULL
    /\ FreeSlots # {}
    /\ trap => fail = "pagetable"
    /\ fail \in {"pagetable", "new_stack"} /\ ~trap => next_pid < MaxPid
    /\ Enqueued(c,
                ForkEvent(c, NewTask, fail,
                          fork([T |-> task, S |-> cpu_sched], c, current_task,
                               NewTask, atomic_add_fetch(next_pid), fail,
                               trap).status),
                c, NewTask,
                fork([T |-> task, S |-> cpu_sched], c, current_task, NewTask,
                     atomic_add_fetch(next_pid), fail, trap),
                fail = "none")
    /\ next_pid' = IF fail = "child" THEN next_pid
                   ELSE atomic_add_fetch(next_pid)
    /\ UNCHANGED <<current_task, sgi, booted, pt_vars, io_vars>>

\* task_wakeup: the idle check after the unlock and send_ipi(1 << cpu, ...)
wakeup_ipi(r, cpu) ==
    r.status = "done" /\ r.S[cpu].current = r.S[cpu].idle_task

\* task_wakeup(task) called on core c with the task heap T; e is the history
\* entry of the operation that makes the call
Wakeup(c, e, T, t) ==
    /\ Enqueued(c, [e EXCEPT
                       !.irq = IF wakeup_ipi(
                                    LockedEnqueue([T |-> T, S |-> cpu_sched],
                                                  Ctz(T[t].cpu_affinity), t,
                                                  T[t].state = TASK_BLOCKED),
                                    Ctz(T[t].cpu_affinity))
                               THEN SendEvent(c, {Ctz(T[t].cpu_affinity)},
                                              IPI_RESCHEDULE, 0)
                               ELSE NoIrqEvent,
                       !.access_lock =
                           LockedEnqueue([T |-> T, S |-> cpu_sched],
                                         Ctz(T[t].cpu_affinity), t,
                                         T[t].state = TASK_BLOCKED
                                        ).S[Ctz(T[t].cpu_affinity)].lock],
                Ctz(T[t].cpu_affinity), t,
                LockedEnqueue([T |-> T, S |-> cpu_sched],
                              Ctz(T[t].cpu_affinity), t,
                              T[t].state = TASK_BLOCKED),
                T[t].state = TASK_BLOCKED)
    /\ sgi' = IF wakeup_ipi(LockedEnqueue([T |-> T, S |-> cpu_sched],
                                          Ctz(T[t].cpu_affinity), t,
                                          T[t].state = TASK_BLOCKED),
                            Ctz(T[t].cpu_affinity))
              THEN Delivered(sgi, c,
                             send_ipi(0, {Ctz(T[t].cpu_affinity)},
                                      IPI_RESCHEDULE, 0),
                             IPI_RESCHEDULE, 0)
              ELSE sgi

\* task_wakeup(task) called on core c
TaskWakeup(c, t) ==
    /\ pc[c] = "run"
    /\ task[t].alloc
    /\ Wakeup(c, OpEvent("task_wakeup", c, t, "done"), task, t)
    /\ UNCHANGED <<current_task, next_pid, booted, pt_vars, io_vars>>

\* ------------------------------------------------------ kernel_main

\* boot.c kernel_main: cpu_sched[0].current = init_task
boot_set_current(r, t) ==
    IF r.status = "done"
    THEN [T |-> r.T, S |-> [r.S EXCEPT ![0].current = t], status |-> r.status]
    ELSE r

\* boot.c kernel_main: init_task = task_create("init", init_process, 0, 0);
\*                     cpu_sched[0].current = init_task;
BootKernelMain ==
    /\ ~booted
    /\ pc[0] = "run"
    /\ FreeSlots # {}
    /\ Enqueued(0, [OpEvent("boot_kernel_main", 0, NewTask, "done") EXCEPT
                       !.access_lock =
                           task_create([T |-> task, S |-> cpu_sched], 0,
                                       NewTask, 0, {},
                                       atomic_add_fetch(next_pid), "none"
                                      ).S[0].lock],
                0, NewTask,
                boot_set_current(
                    task_create([T |-> task, S |-> cpu_sched], 0, NewTask,
                                0, {}, atomic_add_fetch(next_pid), "none"),
                    NewTask), TRUE)
    /\ next_pid' = atomic_add_fetch(next_pid)
    /\ booted' = TRUE
    /\ UNCHANGED <<current_task, sgi, pt_vars, io_vars>>

\* kernel.c kernel_main: if (init_task) current_task = init_task
kernel_set_current(r, t) == IF r.status = "done" THEN t ELSE current_task

\* kernel.c kernel_main: init_task = task_create("init", init_process, 10, 0);
\*                       if (init_task) current_task = init_task;
KernelMain ==
    /\ ~booted
    /\ pc[0] = "run"
    /\ FreeSlots # {}
    /\ Enqueued(0, OpEvent("kernel_main", 0, NewTask, "done"), 0, NewTask,
                task_create([T |-> task, S |-> cpu_sched], 0, NewTask,
                            10, {}, atomic_add_fetch(next_pid), "none"),
                TRUE)
    /\ current_task' =
           kernel_set_current(task_create([T |-> task, S |-> cpu_sched], 0,
                                          NewTask, 10, {},
                                          atomic_add_fetch(next_pid), "none"),
                              NewTask)
    /\ next_pid' = atomic_add_fetch(next_pid)
    /\ booted' = TRUE
    /\ UNCHANGED <<sgi, pt_vars, io_vars>>


\* ------------------------------------------------------ signals (signal.c)

SIGKILL == 9
SIGSTOP == 19
SIG_ERR == 0 - 1
\* the address of a handler in user code
UserHandler == 2

\* find_task_by_pid(pid): the live task with that pid, NULL if there is none
find_task_by_pid(T, pid) ==
    IF \E t \in Tasks : T[t].alloc /\ T[t].pid = pid
    THEN CHOOSE t \in Tasks : T[t].alloc /\ T[t].pid = pid
    ELSE NULL

\* kill: if (sig < 1 || sig >= NSIG || pid <= 0) return -1;
\*       if (!target || target == current_task) return -1;
kill_fails(T, ct, pid, sig) ==
    \/ sig < 1
    \/ sig >= NSIG
    \/ pid <= 0
    \/ find_task_by_pid(T, pid) = NULL
    \/ find_task_by_pid(T, pid) = ct

\* __atomic_or_fetch(&target->signal_state.pending, 1ULL << sig)
kill_pending(T, target, sig) ==
    [T EXCEPT ![target].signal_state.pending = @ \cup {sig}]

KillEvent(c, pid, sig, ret) ==
    [OpEvent("kill", c, find_task_by_pid(task, pid), "done") EXCEPT
        !.ret = ret, !.pid = pid, !.sig = sig, !.caller = exec[c],
        !.entry_task = task]

\* kill(pid, sig) called by the task running on core c
Kill(c, pid, sig) ==
    /\ InTask(c)
    /\ IF kill_fails(task, current_task, pid, sig)
       THEN /\ ev' = KillEvent(c, pid, sig, 0 - 1)
            /\ UNCHANGED <<task, cpu_sched, pc, exec, enq_log, sgi>>
       ELSE Wakeup(c, KillEvent(c, pid, sig, 0),
                   kill_pending(task, find_task_by_pid(task, pid), sig),
                   find_task_by_pid(task, pid))
    /\ UNCHANGED <<current_task, next_pid, booted, pt_vars, io_vars>>

SignalEvent(op, c, t, sig, did, ret) ==
    [OpEvent(op, c, t, "done") EXCEPT
        !.sig = sig, !.did = did, !.ret = ret, !.caller = exec[c],
        !.entry_task = task]

\* signal(sig, handler) called by the task running on core c
Signal(c, sig, handler) ==
    /\ InTask(c)
    /\ IF sig < 1 \/ sig >= NSIG \/ sig = SIGKILL \/ sig = SIGSTOP
       THEN /\ ev' = SignalEvent("signal", c, current_task, sig, "none", SIG_ERR)
            /\ UNCHANGED task
       ELSE /\ task' = [task EXCEPT
                           ![current_task].signal_state.handlers =
                               (sig :> handler) @@ @]
            /\ ev' = SignalEvent("signal", c, current_task, sig, "set",
                                 handler_of(task[current_task].signal_state,
                                            sig))
    /\ UNCHANGED <<cpu_sched, current_task, next_pid, pc, exec, sgi, booted,
                   enq_log, pt_vars, io_vars>>

\* deliver_signals: pending &= ~blocked, with the mask of signal_state
Deliverable(ss) == ss.pending \ ss.blocked

\* __atomic_and_fetch(&task->signal_state.pending, ~(1ULL << sig))
clear_pending(T, t, sig) ==
    [T EXCEPT ![t].signal_state.pending = @ \ {sig}]

\* deliver_signals, user handler: old_mask = task->blocked;
\* task->blocked |= 1ULL << sig.  The handler's argument in regs[0] is part
\* of the frame that is left out
enter_handler(T, t, sig) ==
    [T EXCEPT ![t].signal_state.old_mask = T[t].blocked,
              ![t].blocked = @ \cup {sig}]

\* exit(status): the task becomes a ZOMBIE and leaves the core
exit(T, t) == [T EXCEPT ![t].state = TASK_ZOMBIE]

\* deliver_signals from `int sig = __builtin_ctzll(pending)` on
Delivery(c, t, sig, handler) ==
    IF handler = SIG_DFL
    THEN /\ ScheduledAs(c,
                schedule([T |-> exit(clear_pending(task, t, sig), t),
                          S |-> cpu_sched], t, c),
                [Event("deliver_signals", c, t, TASK_ZOMBIE,
                       schedule([T |-> exit(clear_pending(task, t, sig), t),
                                 S |-> cpu_sched], t, c),
                       exit(clear_pending(task, t, sig), t))
                    EXCEPT !.sig = sig, !.did = "exit", !.caller = exec[c],
                           !.entry_task = task])
         /\ UNCHANGED elr_el1
    ELSE IF handler = SIG_IGN
    THEN /\ task' = clear_pending(task, t, sig)
         /\ ev' = SignalEvent("deliver_signals", c, t, sig, "ignore", 0)
         /\ UNCHANGED <<cpu_sched, current_task, pc, exec, enq_log, elr_el1>>
    ELSE /\ task' = enter_handler(clear_pending(task, t, sig), t, sig)
         /\ elr_el1' = [elr_el1 EXCEPT ![t] = handler]
         /\ ev' = SignalEvent("deliver_signals", c, t, sig, "handler", 0)
         /\ UNCHANGED <<cpu_sched, current_task, pc, exec, enq_log>>

\* deliver_signals() run for the task on core c
DeliverSignals(c) ==
    /\ InTask(c)
    /\ IF Deliverable(task[current_task].signal_state) = {}
       THEN /\ ev' = SignalEvent("deliver_signals", c, current_task, 0,
                                 "none", 0)
            /\ UNCHANGED <<task, cpu_sched, current_task, pc, exec, enq_log,
                           elr_el1>>
       ELSE Delivery(c, current_task,
                     Ctz(Deliverable(task[current_task].signal_state)),
                     handler_of(
                         task[current_task].signal_state,
                         Ctz(Deliverable(task[current_task].signal_state))))
    /\ UNCHANGED <<next_pid, sgi, booted, pgt, pgtable_l0, refcount, kfreed,
                   pt_ev, io_vars>>

\* sigreturn() called by the handler running on core c
Sigreturn(c) ==
    /\ InTask(c)
    /\ task' = [task EXCEPT
                   ![current_task].blocked =
                       task[current_task].signal_state.old_mask]
    /\ ev' = SignalEvent("sigreturn", c, current_task, 0, "none", 0)
    /\ UNCHANGED <<cpu_sched, current_task, next_pid, pc, exec, sgi, booted,
                   enq_log, pt_vars, io_vars>>

\* ------------------------------------------------------- pipes (pipe.c)

\* count < avail ? count : avail
Smaller(a, b) == IF a < b THEN a ELSE b

\* the n bytes memcpy moves out of data from pos; a chunk never wraps
Bytes(P, pos, n) == [i \in 1..n |-> P.data[pos + i - 1]]

\* the caller's buffer of a pipe_write of n bytes: byte i carries its number
\* in the stream of all bytes written, as a uint8_t
SrcBytes(wrote, n) == [i \in 1..n |-> (wrote + i) % 256]

\* task_wakeup(w) would busy-wait: the scheduler lock of w's core is held
wakeup_spins(K, w) == K.S[Ctz(K.T[w].cpu_affinity)].lock # 0

\* a copy loop that lets read_pos run past the end of the buffer
read_chunk_NoWrap(P, left) ==
    [P EXCEPT !.read_pos =
                  P.read_pos + Smaller(PIPE_BUFFER_SIZE - P.read_pos, left),
              !.count = P.count - Smaller(PIPE_BUFFER_SIZE - P.read_pos, left)]

\* pipe_read, one pass of the copy loop with `left` bytes to go:
\* read_pos = (read_pos + chunk) % PIPE_BUFFER_SIZE; count -= chunk
read_chunk(P, left) ==
    [P EXCEPT !.read_pos =
                  (P.read_pos + Smaller(PIPE_BUFFER_SIZE - P.read_pos, left))
                      % PIPE_BUFFER_SIZE,
              !.count = P.count - Smaller(PIPE_BUFFER_SIZE - P.read_pos, left)]

RECURSIVE read_loop(_, _, _, _, _)
RECURSIVE read_wake(_, _, _, _, _)

\* pipe_read: while (read < to_read), then the unlock and return read.  buf
\* holds the bytes copied so far, woke the task task_wakeup was called for
read_loop(P, K, to_read, buf, woke) ==
    IF Len(buf) >= to_read
    THEN [P |-> [P EXCEPT !.lock = 0], buf |-> buf, woke |-> woke,
          status |-> "done", ret |-> Len(buf)]
    ELSE read_wake(read_chunk(P, to_read - Len(buf)), K, to_read,
                   buf \o Bytes(P, P.read_pos,
                                Smaller(PIPE_BUFFER_SIZE - P.read_pos,
                                        to_read - Len(buf))),
                   woke)

\* pipe_read: if (pipe->write_waiter && pipe->count < PIPE_BUFFER_SIZE - 1)
\*                { task_wakeup(pipe->write_waiter); write_waiter = NULL; }
\* a task_wakeup that busy-waits leaves the call there, the pipe locked
read_wake(P, K, to_read, buf, woke) ==
    IF P.write_waiter # NULL /\ P.count < PIPE_BUFFER_SIZE - 1
    THEN IF wakeup_spins(K, P.write_waiter)
         THEN [P |-> P, buf |-> buf, woke |-> P.write_waiter,
               status |-> "spin", ret |-> 0]
         ELSE read_loop([P EXCEPT !.write_waiter = NULL], K, to_read, buf,
                        P.write_waiter)
    ELSE read_loop(P, K, to_read, buf, woke)

\* pipe_read(file, buf, count) with current_task ct; nonblock is
\* file->f_flags & O_NONBLOCK.  status "spin": busy-waiting on the pipe lock
\* or inside task_wakeup; "block": about to call task_block
pipe_read(P, K, ct, count, nonblock) ==
    IF P.lock # 0
    THEN [P |-> P, buf |-> <<>>, woke |-> NULL, status |-> "spin", ret |-> 0]
    ELSE IF P.count = 0
    THEN IF nonblock
         THEN [P |-> P, buf |-> <<>>, woke |-> NULL, status |-> "done",
               ret |-> 0 - 1]
         ELSE [P |-> [P EXCEPT !.read_waiter = ct], buf |-> <<>>,
               woke |-> NULL, status |-> "block", ret |-> 0]
    ELSE read_loop([P EXCEPT !.lock = 1], K, Smaller(count, P.count), <<>>,
                   NULL)

\* pipe_write, one pass of the copy loop: `left` bytes to go, the next one
\* being src[written + 1]
write_chunk(P, src, written, left) ==
    [P EXCEPT !.data =
                  [i \in PipeIdx |->
                      IF /\ i >= P.write_pos
                         /\ i < P.write_pos
                                + Smaller(PIPE_BUFFER_SIZE - P.write_pos, left)
                      THEN src[written + 1 + (i - P.write_pos)]
                      ELSE P.data[i]],
              !.write_pos =
                  (P.write_pos + Smaller(PIPE_BUFFER_SIZE - P.write_pos, left))
                      % PIPE_BUFFER_SIZE,
              !.count = P.count + Smaller(PIPE_BUFFER_SIZE - P.write_pos, left)]

RECURSIVE write_loop(_, _, _, _, _, _)
RECURSIVE write_wake(_, _, _, _, _, _)

\* pipe_write: while (written < to_write), then the unlock and return written
write_loop(P, K, src, to_write, written, woke) ==
    IF written >= to_write
    THEN [P |-> [P EXCEPT !.lock = 0], buf |-> <<>>, woke |-> woke,
          status |-> "done", ret |-> written]
    ELSE write_wake(write_chunk(P, src, written, to_write - written), K, src,
                    to_write,
                    written + Smaller(PIPE_BUFFER_SIZE - P.write_pos,
                                      to_write - written),
                    woke)

\* pipe_write: if (pipe->read_waiter && pipe->count > 0)
\*                 { task_wakeup(pipe->read_waiter); read_waiter = NULL; }
write_wake(P, K, src, to_write, written, woke) ==
    IF P.read_waiter # NULL /\ P.count > 0
    THEN IF wakeup_spins(K, P.read_waiter)
         THEN [P |-> P, buf |-> <<>>, woke |-> P.read_waiter,
               status |-> "spin", ret |-> written]
         ELSE write_loop([P EXCEPT !.read_waiter = NULL], K, src, to_write,
                         written, P.read_waiter)
    ELSE write_loop(P, K, src, to_write, written, woke)

\* pipe_write(file, buf, count) with current_task ct and the caller's bytes
\* src.  On "spin" ret is the number of bytes already copied in
pipe_write(P, K, ct, src, count, nonblock) ==
    IF P.lock # 0
    THEN [P |-> P, buf |-> <<>>, woke |-> NULL, status |-> "spin", ret |-> 0]
    ELSE IF P.count = PIPE_BUFFER_SIZE
    THEN IF nonblock
         THEN [P |-> P, buf |-> <<>>, woke |-> NULL, status |-> "done",
               ret |-> 0 - 1]
         ELSE [P |-> [P EXCEPT !.write_waiter = ct], buf |-> <<>>,
               woke |-> NULL, status |-> "block", ret |-> 0]
    ELSE write_loop([P EXCEPT !.lock = 1], K, src,
                    Smaller(count, PIPE_BUFFER_SIZE - P.count), 0, NULL)

\* where core c is after a pipe operation ended with the given status
PipePc(op, status) ==
    IF status = "spin" THEN "spin"
    ELSE IF status = "block"
    THEN (IF op = "pipe_read" THEN "read_block" ELSE "write_block")
    ELSE "run"

\* the state after a pipe operation of core c with result r and history e;
\* r.woke is the task it called task_wakeup for
PipeDone(c, r, e) ==
    /\ pipe' = r.P
    /\ pipe_ev' = e
    /\ IF r.woke # NULL
       THEN Wakeup(c, OpEvent(e.op, c, r.woke, "done"), task, r.woke)
       ELSE /\ pc' = [pc EXCEPT ![c] = PipePc(e.op, r.status)]
            /\ UNCHANGED <<task, cpu_sched, exec, ev, enq_log, sgi>>
    /\ UNCHANGED <<current_task, next_pid, booted, pt_vars>>

\* pipe(pipefd) called by the task on core c, every allocation succeeding:
\* memset(pipe, 0, sizeof(*pipe)); read_waiter = write_waiter = current_task
PipeCreate(c) ==
    /\ InTask(c)
    /\ ~pipe.alloc
    /\ pipe' = [ZeroPipe EXCEPT !.alloc = TRUE, !.read_waiter = current_task,
                                !.write_waiter = current_task]
    /\ pipe_ev' = [NoPipeEvent EXCEPT !.op = "pipe", !.cpu = c,
                                      !.status = "done"]
    /\ UNCHANGED <<sched_vars, pt_vars>>

\* pipe_read(file, buf, count) called by the task on core c
PipeRead(c, count, nonblock) ==
    /\ InTask(c)
    /\ pipe.alloc
    /\ PipeDone(c, pipe_read(pipe, [T |-> task, S |-> cpu_sched],
                             current_task, count, nonblock),
                [op |-> "pipe_read", cpu |-> c, count |-> count,
                 nonblock |-> nonblock,
                 ret |-> pipe_read(pipe, [T |-> task, S |-> cpu_sched],
                                   current_task, count, nonblock).ret,
                 buf |-> pipe_read(pipe, [T |-> task, S |-> cpu_sched],
                                   current_task, count, nonblock).buf,
                 entry |-> pipe,
                 status |-> pipe_read(pipe, [T |-> task, S |-> cpu_sched],
                                      current_task, count, nonblock).status,
                 wrote |-> pipe_ev.wrote,
                 taken |-> pipe_ev.taken
                     + Len(pipe_read(pipe, [T |-> task, S |-> cpu_sched],
                                     current_task, count, nonblock).buf)])

\* pipe_write(file, buf, count) called by the task on core c
PipeWrite(c, count, nonblock) ==
    /\ InTask(c)
    /\ pipe.alloc
    /\ pipe_ev.wrote + Smaller(count, PIPE_BUFFER_SIZE - pipe.count) <= MaxWritten
    /\ PipeDone(c, pipe_write(pipe, [T |-> task, S |-> cpu_sched],
                              current_task, SrcBytes(pipe_ev.wrote, count),
                              count, nonblock),
                [op |-> "pipe_write", cpu |-> c, count |-> count,
                 nonblock |-> nonblock,
                 ret |-> pipe_write(pipe, [T |-> task, S |-> cpu_sched],
                                    current_task,
                                    SrcBytes(pipe_ev.wrote, count), count,
                                    nonblock).ret,
                 buf |-> <<>>,
                 entry |-> pipe,
                 status |-> pipe_write(pipe, [T |-> task, S |-> cpu_sched],
                                       current_task,
                                       SrcBytes(pipe_ev.wrote, count), count,
                                       nonblock).status,
                 wrote |-> pipe_ev.wrote
                     + (IF pipe_write(pipe, [T |-> task, S |-> cpu_sched],
                                      current_task,
                                      SrcBytes(pipe_ev.wrote, count), count,
                                      nonblock).ret < 0
                        THEN 0
                        ELSE pipe_write(pipe, [T |-> task, S |-> cpu_sched],
                                        current_task,
                                        SrcBytes(pipe_ev.wrote, count), count,
                                        nonblock).ret),
                 taken |-> pipe_ev.taken])

\* pipe_read and pipe_write after the unlock: task_block(TASK_BLOCKED).  When
\* it returns the loop takes the lock and tests the pipe again, which is
\* what a new call does
PipeBlock(c) ==
    /\ pc[c] \in {"read_block", "write_block"}
    /\ Scheduled(c, "task_block", current_task, TASK_BLOCKED,
                 schedule([T |-> task_block(task, current_task, TASK_BLOCKED),
                           S |-> cpu_sched], current_task, c),
                 task_block(task, current_task, TASK_BLOCKED))
    /\ pipe_ev' = [pipe_ev EXCEPT !.op = "task_block", !.cpu = c,
                                  !.entry = pipe, !.buf = <<>>]
    /\ UNCHANGED <<next_pid, sgi, booted, pt_vars, pipe>>

\* ---------------------------------------------------- page tables (mmu.c)
\* M is the memory the page-table code works on: [pgt, refcount, kfreed].

\* pt_alloc_level(): a zeroed node, numbered Len(M.pgt) + 1
pt_alloc_level(M) ==
    [M EXCEPT !.pgt = Append(@, [i \in PtIdx |-> ZeroPte])]

\* (uint64_t)table | PTE_VALID | PTE_TABLE
TablePte(n) == [ZeroPte EXCEPT !.valid = TRUE, !.table = TRUE, !.addr = n]

\* what phys_alloc_page returns when its kmalloc returned NULL: the address
\* NULL - KERNEL_VIRT_BASE, which is no page of the allocator
BadPage == 0

\* phys_alloc_page(): a fresh page, numbered Len(M.refcount) + 1, that the
\* reference table does not know yet; M.avail is the number of kmalloc calls
\* that still succeed, and the result of kmalloc is not tested
phys_alloc_page(M) ==
    IF M.avail = 0 THEN [M EXCEPT !.failed = TRUE]
    ELSE [M EXCEPT !.refcount = Append(@, 0), !.avail = @ - 1]

\* the value phys_alloc_page returns on memory M
NewPage(M) == IF M.avail = 0 THEN BadPage ELSE Len(M.refcount) + 1

\* page_ref_inc(phys); an address that is no page has no count
page_ref_inc(M, p) ==
    IF p = BadPage THEN M ELSE [M EXCEPT !.refcount[p] = @ + 1]

\* mmu_walk_pte, create = 1, levels L0..L2: the node below entry idx of
\* `node`, allocated and linked if the entry is not valid
walk_level(M, node, idx) ==
    IF M.pgt[node][idx].valid
    THEN [M |-> M, node |-> M.pgt[node][idx].addr]
    ELSE [M |-> [pt_alloc_level(M) EXCEPT
                    !.pgt[node][idx] = TablePte(Len(M.pgt) + 1)],
          node |-> Len(M.pgt) + 1]

walk_from(R, va, level) == walk_level(R.M, R.node, IdxAt(va, level))

\* page | PTE_VALID | PTE_PAGE | PTE_AF | PTE_SH_INNER | PTE_USER | PTE_RW
DefaultPte(p) ==
    [ZeroPte EXCEPT !.valid = TRUE, !.table = TRUE, !.addr = p, !.user = TRUE]

\* mmu_walk_pte, create = 1, level L3: a leaf that is not valid gets a
\* fresh physical page
walk_leaf(R, va) ==
    IF R.M.pgt[R.node][IdxAt(va, 3)].valid
    THEN R
    ELSE [M |-> [phys_alloc_page(R.M) EXCEPT
                    !.pgt[R.node][IdxAt(va, 3)] =
                        DefaultPte(NewPage(R.M))],
          node |-> R.node]

\* mmu_walk_pte(task, va, 1): the memory after the walk and the L3 node
\* that holds the entry of va
mmu_walk_pte(M, l0, va) ==
    walk_leaf(walk_from(walk_from(walk_from([M |-> M, node |-> l0], va, 0),
                                  va, 1), va, 2), va)

\* prot & flag
HasProt(prot, flag) == (prot \div flag) % 2 = 1

\* phys | attr as mmu_map builds it; PTE_RW is 0, so PTE_RO is never set
MapPte(p, prot, guard) ==
    [valid |-> ~guard, table |-> TRUE, addr |-> p, user |-> TRUE,
     uxn |-> ~HasProt(prot, PROT_EXEC), ro |-> FALSE, cow |-> FALSE]

\* the body of the mmu_map loop after the walk returned R
map_page(R, va, prot, guard) ==
    [page_ref_inc(phys_alloc_page(R.M), NewPage(R.M)) EXCEPT
        !.pgt[R.node][IdxAt(va, 3)] = MapPte(NewPage(R.M), prot, guard)]

\* mmu_map(task, virt, size, prot, guard): the loop over [virt, end)
RECURSIVE mmu_map(_, _, _, _, _, _)
mmu_map(M, l0, virt, end, prot, guard) ==
    IF virt >= end THEN M
    ELSE mmu_map(map_page(mmu_walk_pte(M, l0, virt), virt, prot, guard),
                 l0, virt + 1, end, prot, guard)

\* mmu_init_task: the two mmu_map calls on the fresh root l0.  The memcpy of
\* kernel_pgt_l0 + 256 copies entries mmu_map_kernel never writes (it fills
\* index 0 only), so the root stays zeroed.
init_task_maps(M, l0) ==
    mmu_map(mmu_map(M, l0, StackBase - USER_STACK_PAGES, StackBase,
                    PROT_READ + PROT_WRITE, FALSE),
            l0, StackBase - USER_STACK_PAGES - 1,
            StackBase - USER_STACK_PAGES, PROT_NONE, TRUE)

mmu_init_task(M) == init_task_maps(pt_alloc_level(M), Len(M.pgt) + 1)

\* a leaf shared copy-on-write: read-only and marked PTE_COW
CowPte(e) == [e EXCEPT !.ro = TRUE, !.cow = TRUE]

\* mmu_duplicate_pagetable, innermost loop body: a valid leaf of old_l3 is
\* shared copy-on-write with new_l3 and its page gains a reference
dup_leaf(M, old_l3, new_l3, m) ==
    IF M.pgt[old_l3][m].valid
    THEN page_ref_inc([M EXCEPT !.pgt[new_l3][m] = CowPte(M.pgt[old_l3][m]),
                                !.pgt[old_l3][m] = CowPte(M.pgt[old_l3][m])],
                      M.pgt[old_l3][m].addr)
    ELSE M

RECURSIVE dup_l3(_, _, _, _)
dup_l3(M, old_l3, new_l3, m) ==
    IF m = PT_ENTRIES THEN M
    ELSE dup_l3(dup_leaf(M, old_l3, new_l3, m), old_l3, new_l3, m + 1)

\* loop body over old_l2[k]: new_l3 = pt_alloc_level();
\*                           old_l2[k] = new_l3 | PTE_VALID | PTE_TABLE;
dup_l2_entry(M, old_l2, k) ==
    IF M.pgt[old_l2][k].valid /\ M.pgt[old_l2][k].table
    THEN dup_l3([pt_alloc_level(M) EXCEPT
                    !.pgt[old_l2][k] = TablePte(Len(M.pgt) + 1)],
                M.pgt[old_l2][k].addr, Len(M.pgt) + 1, 0)
    ELSE M

RECURSIVE dup_l2(_, _, _)
dup_l2(M, old_l2, k) ==
    IF k = PT_ENTRIES THEN M
    ELSE dup_l2(dup_l2_entry(M, old_l2, k), old_l2, k + 1)

\* loop body over old_l1[j]: new_l2 = pt_alloc_level();
\*                           old_l1[j] = new_l2 | PTE_VALID | PTE_TABLE;
dup_l1_entry(M, old_l1, j) ==
    IF M.pgt[old_l1][j].valid /\ M.pgt[old_l1][j].table
    THEN dup_l2([pt_alloc_level(M) EXCEPT
                    !.pgt[old_l1][j] = TablePte(Len(M.pgt) + 1)],
                M.pgt[old_l1][j].addr, 0)
    ELSE M

RECURSIVE dup_l1(_, _, _)
dup_l1(M, old_l1, j) ==
    IF j = PT_ENTRIES THEN M
    ELSE dup_l1(dup_l1_entry(M, old_l1, j), old_l1, j + 1)

\* loop body over parent->pgtable_l0[i]: new_l1 = pt_alloc_level();
\*                                       new_l0[i] = new_l1 | PTE_VALID | PTE_TABLE;
dup_l0_entry(M, parent_l0, new_l0, i) ==
    IF M.pgt[parent_l0][i].valid
    THEN dup_l1([pt_alloc_level(M) EXCEPT
                    !.pgt[new_l0][i] = TablePte(Len(M.pgt) + 1)],
                M.pgt[parent_l0][i].addr, 0)
    ELSE M

\* for (i = 0; i < 256; i++)
RECURSIVE dup_l0(_, _, _, _)
dup_l0(M, parent_l0, new_l0, i) ==
    IF i = PT_ENTRIES \div 2 THEN M
    ELSE dup_l0(dup_l0_entry(M, parent_l0, new_l0, i), parent_l0, new_l0, i + 1)

\* memcpy(new_l0 + 256, parent->pgtable_l0 + 256, 256 * 8)
copy_kernel_half(M, parent_l0, new_l0) ==
    [M EXCEPT !.pgt[new_l0] =
        [i \in PtIdx |-> IF i \in LowerIdx THEN @[i] ELSE M.pgt[parent_l0][i]]]

\* mmu_duplicate_pagetable(parent, child); the new root is Len(M.pgt) + 1
mmu_duplicate_pagetable(M, parent_l0) ==
    dup_l0(copy_kernel_half(pt_alloc_level(M), parent_l0, Len(M.pgt) + 1),
           parent_l0, Len(M.pgt) + 1, 0)

\* the root entries of the upper half: 256..511 of 512
UpperIdx == PtIdx \ LowerIdx

\* kernel_pgt_l0 after mmu_init: mmu_map_kernel(0xFFFF000000000000, 4GB)
\* computes l0_idx = (virt >> L0_SHIFT) & 0x1FF = 0 on every round, so entry
\* 0 is a block (PTE_BLOCK is 0) and all other entries stay zeroed
kernel_pgt_l0 ==
    [i \in PtIdx |-> IF i = 0 THEN [ZeroPte EXCEPT !.valid = TRUE] ELSE ZeroPte]

\* the hardware walk of root l0 in tables P, levels below `node`
Descend(P, node, va, level) ==
    IF node = NULL \/ ~P[node][IdxAt(va, level)].valid
    THEN NULL
    ELSE P[node][IdxAt(va, level)].addr

\* the L3 entry a walk of va from root l0 reaches; ZeroPte if a level is
\* missing
Leaf(P, l0, va) ==
    IF Descend(P, Descend(P, Descend(P, l0, va, 0), va, 1), va, 2) = NULL
    THEN ZeroPte
    ELSE P[Descend(P, Descend(P, Descend(P, l0, va, 0), va, 1), va, 2)]
          [IdxAt(va, 3)]

PtEvent(op, t, child, virt, size) ==
    [NoPtEvent EXCEPT !.op = op, !.task = t, !.child = child,
                      !.l0 = pgtable_l0[t], !.pgt = pgt, !.refcount = refcount,
                      !.virt = virt, !.size = size, !.tlb_virt = virt + size,
                      !.tlb_size = size, !.prev_op = pt_ev.op,
                      !.prev_task = pt_ev.task, !.prev_child = pt_ev.child]

\* the state after a page-table operation left memory M
PtDone(M, e) ==
    /\ pgt' = M.pgt
    /\ refcount' = M.refcount
    /\ kfreed' = M.kfreed
    /\ pt_ev' = e
    /\ UNCHANGED <<sched_vars, io_vars, elr_el1>>

Mem ==
    [pgt |-> pgt, refcount |-> refcount, kfreed |-> kfreed,
     avail |-> MaxPhysPages, failed |-> FALSE]

\* the nodes that the valid entries of the nodes in `nodes` point to
Below(P, nodes) ==
    {P[n][i].addr : <<n, i>> \in {x \in nodes \X PtIdx : P[x[1]][x[2]].valid}}

\* every node of the tree under root l0 in tables P, the root included
TreeNodes(P, l0) ==
    {l0} \cup Below(P, {l0}) \cup Below(P, Below(P, {l0}))
         \cup Below(P, Below(P, Below(P, {l0})))

\* task t has a page table none of whose nodes was handed to kfree
Intact(t) ==
    /\ pgtable_l0[t] # NULL
    /\ TreeNodes(pgt, pgtable_l0[t]) \cap kfreed = {}

IntactTasks == {t \in Tasks : Intact(t)}

\* the nodes that the upper-half entries of root l0 point to
UpperFirst(P, l0) == {P[l0][i].addr : i \in {j \in UpperIdx : P[l0][j].valid}}

\* the table nodes reachable from the upper-half entries of root l0
UpperNodes(P, l0) ==
    UpperFirst(P, l0) \cup Below(P, UpperFirst(P, l0))
        \cup Below(P, Below(P, UpperFirst(P, l0)))

\* pt_free: the leaves it hands to phys_free_page, those with
\* (l3[m] & PTE_VALID) && !(l3[m] & PTE_TABLE)
PhysFreed(P, l0) ==
    {Leaf(P, l0, va).addr :
        va \in {v \in VPages : /\ Leaf(P, l0, v).valid
                               /\ ~Leaf(P, l0, v).table}}

\* phys_free_page(page): the body is empty
phys_free_page(M, p) == M

\* pt_free(l0): every node reached through a valid entry of any of the
\* PT_ENTRIES slots of a level is handed to kfree, l0 last
pt_free(M, l0) == [M EXCEPT !.kfreed = @ \cup TreeNodes(M.pgt, l0)]

\* task_create: mmu_init_task(task)
MmuInitTask(t) ==
    /\ pgtable_l0[t] = NULL
    /\ Len(refcount) + 2 * (USER_STACK_PAGES + 1) <= MaxPhysPages
    /\ PtDone(mmu_init_task(Mem), PtEvent("mmu_init_task", t, NULL, 0, 0))
    /\ pgtable_l0' = [pgtable_l0 EXCEPT ![t] = Len(pgt) + 1]

\* mmu_map: the value returned.  mmu_walk_pte with create = 1 returns
\* &pte[idx] on every path, so `if (!pte) return -1` is never taken and the
\* loop runs to its end
mmu_map_ret(virt, end) == 0

\* mmu_map: the value of virt when the loop over [virt, end) is left
RECURSIVE mmu_map_end(_, _)
mmu_map_end(virt, end) ==
    IF virt >= end THEN virt ELSE mmu_map_end(virt + 1, end)

\* mmu_map(task, virt, size, prot, guard); the range is invalidated with
\* mmu_tlb_invalidate_addr(virt, size) after the loop moved virt to the end
MmuMap(t, virt, size, prot, guard, avail) ==
    /\ pgtable_l0[t] # NULL
    /\ virt + size - 1 \in VPages
    /\ Len(refcount) + 2 * size <= MaxPhysPages
    /\ PtDone(mmu_map([Mem EXCEPT !.avail = avail], pgtable_l0[t], virt,
                      virt + size, prot, guard),
              [PtEvent("mmu_map", t, NULL, virt, size) EXCEPT
                  !.tlb_virt = mmu_map_end(virt, virt + size),
                  !.tlb_size = size,
                  !.ret = mmu_map_ret(virt, virt + size),
                  !.nomem = mmu_map([Mem EXCEPT !.avail = avail],
                                    pgtable_l0[t], virt, virt + size, prot,
                                    guard).failed,
                  !.prot = prot, !.guard = guard,
                  !.walked = [pgt |-> mmu_walk_pte([Mem EXCEPT !.avail = avail],
                                                   pgtable_l0[t], virt).M.pgt,
                              refcount |-> mmu_walk_pte(
                                               [Mem EXCEPT !.avail = avail],
                                               pgtable_l0[t],
                                               virt).M.refcount]])
    /\ UNCHANGED pgtable_l0

\* fork: mmu_duplicate_pagetable(parent, child), the child taking the new
\* root
MmuDuplicatePagetable(parent, child) ==
    /\ parent # child
    /\ pgtable_l0[parent] # NULL
    /\ pgtable_l0[child] = NULL
    /\ PtDone(mmu_duplicate_pagetable(Mem, pgtable_l0[parent]),
              PtEvent("mmu_duplicate_pagetable", parent, child, 0, 0))
    /\ pgtable_l0' = [pgtable_l0 EXCEPT ![child] = Len(pgt) + 1]

\* mmu_free_pagetable(task): pt_free on the task's root; the task control
\* block is released right after (fork, task.c:79)
MmuFreePagetable(t) ==
    /\ pgtable_l0[t] # NULL
    /\ PtDone(pt_free(Mem, pgtable_l0[t]),
              [PtEvent("mmu_free_pagetable", t, NULL, 0, 0) EXCEPT
                  !.pgt = pt_ev.pgt, !.refcount = pt_ev.refcount,
                  !.l0 = pt_ev.l0,
                  !.phys_freed = PhysFreed(pgt, pgtable_l0[t])])
    /\ pgtable_l0' = [pgtable_l0 EXCEPT ![t] = NULL]

\* the L3 node a walk of va from root l0 ends in, NULL if a level is missing
LeafNode(P, l0, va) ==
    Descend(P, Descend(P, Descend(P, l0, va, 0), va, 1), va, 2)

\* page_ref_dec(phys)
page_ref_dec(M, p) == [M EXCEPT !.refcount[p] = @ - 1]

\* handle_cow_fault on a leaf of node n whose page other leaves share: a new
\* page replaces it in this leaf, writable, and the old page loses a
\* reference
cow_copy(M, n, i) ==
    page_ref_dec(
        [page_ref_inc(phys_alloc_page(M), NewPage(M)) EXCEPT
            !.pgt[n][i] = [M.pgt[n][i] EXCEPT !.addr = NewPage(M),
                                              !.ro = FALSE, !.cow = FALSE]],
        M.pgt[n][i].addr)

\* handle_cow_fault on a leaf that owns its page: write permission is
\* restored
cow_own(M, n, i) ==
    [M EXCEPT !.pgt[n][i] = [M.pgt[n][i] EXCEPT !.ro = FALSE, !.cow = FALSE]]

\* the leaf at slot i of node n is a copy-on-write mapping
IsCow(M, n, i) == n # NULL /\ M.pgt[n][i].valid /\ M.pgt[n][i].cow

\* a write fault on the leaf at slot i of node n (NULL if the walk found
\* none): only a copy-on-write leaf is resolved
handle_cow_fault(M, n, i) ==
    IF ~IsCow(M, n, i) THEN M
    ELSE IF M.refcount[M.pgt[n][i].addr] > 1 THEN cow_copy(M, n, i)
    ELSE cow_own(M, n, i)

\* the page copies that fault makes
cow_copies(M, n, i) ==
    IF IsCow(M, n, i) /\ M.refcount[M.pgt[n][i].addr] > 1 THEN 1 ELSE 0

\* data_abort_handler for a write by task t to page va
data_abort_handler(M, t, va) ==
    handle_cow_fault(M, LeafNode(M.pgt, pgtable_l0[t], va), IdxAt(va, 3))

\* the first write, by parent or child, to a page that the parent had
\* mapped when fork duplicated its page table
MmuWriteFault(t, va) ==
    /\ pt_ev.op = "mmu_duplicate_pagetable"
    /\ t \in {pt_ev.task, pt_ev.child}
    /\ Leaf(pt_ev.pgt, pt_ev.l0, va).valid
    /\ Len(refcount) + 1 <= MaxPhysPages
    /\ PtDone(data_abort_handler(Mem, t, va),
              [PtEvent("write_fault", t, NULL, va, 1) EXCEPT
                  !.pgt = pt_ev.pgt, !.refcount = pt_ev.refcount,
                  !.l0 = pt_ev.l0, !.fault_rc = refcount,
                  !.copies = cow_copies(Mem, LeafNode(pgt, pgtable_l0[t], va),
                                        IdxAt(va, 3))])
    /\ UNCHANGED pgtable_l0

Prots == {PROT_READ + PROT_WRITE, PROT_READ + PROT_EXEC}

\* ------------------------------------------------------------ execve

\* the Elf64_Ehdr fields execve reads, with the values it accepts
GoodHeader ==
    [magic |-> "ELFMAG", class |-> "ELFCLASS64", data |-> "ELFDATA2LSB",
     machine |-> "EM_AARCH64", type |-> "ET_EXEC", e_entry |-> 1]

\* the headers of the files execve is called on: the good one and the ones
\* with a single field wrong
Headers ==
    {GoodHeader, [GoodHeader EXCEPT !.magic = "MZ"],
     [GoodHeader EXCEPT !.class = "ELFCLASS32"],
     [GoodHeader EXCEPT !.data = "ELFDATA2MSB"],
     [GoodHeader EXCEPT !.machine = "EM_X86_64"],
     [GoodHeader EXCEPT !.type = "ET_DYN"]}

\* the validation that lets a header with the wrong e_type through
ValidElf_AnyType(ehdr) ==
    ~(\/ ehdr.magic # "ELFMAG"
      \/ ehdr.class # "ELFCLASS64"
      \/ ehdr.data # "ELFDATA2LSB"
      \/ ehdr.machine # "EM_AARCH64")

\* execve: the condition under which the header is not rejected
ValidElf(ehdr) ==
    ~(\/ ehdr.magic # "ELFMAG"
      \/ ehdr.class # "ELFCLASS64"
      \/ ehdr.data # "ELFDATA2LSB"
      \/ ehdr.machine # "EM_AARCH64"
      \/ ehdr.type # "ET_EXEC")

\* mmu_free_usermemory, one page: a valid leaf is cleared and its page loses
\* a reference
unmap_page(M, l0, va) ==
    IF Leaf(M.pgt, l0, va).valid
    THEN page_ref_dec(
             [M EXCEPT !.pgt[LeafNode(M.pgt, l0, va)][IdxAt(va, 3)] = ZeroPte],
             Leaf(M.pgt, l0, va).addr)
    ELSE M

\* mmu_free_usermemory(task): the mappings of the lower half from va up
RECURSIVE mmu_free_usermemory(_, _, _)
mmu_free_usermemory(M, l0, va) ==
    IF va \notin LowerHalf THEN M
    ELSE mmu_free_usermemory(unmap_page(M, l0, va), l0, va + 1)

\* what an execve call leaves: memory, entry point, return value and whether
\* mmu_free_usermemory ran
Unchanged(M, entry) ==
    [M |-> M, elr_el1 |-> entry, ret |-> 0 - 1, freed_user |-> FALSE]

\* execve past the validation: the user memory is freed and the image takes
\* over the task
execve_load(M, l0, ehdr) ==
    [M |-> mmu_free_usermemory(M, l0, 0), elr_el1 |-> ehdr.e_entry, ret |-> 0,
     freed_user |-> TRUE]

\* execve(pathname, argv, envp) of the task with root l0 and entry point
\* entry; file is vfs_open's result, full_read tells whether vfs_read gave a
\* whole header
execve(M, l0, entry, file, full_read, ehdr) ==
    IF ~file THEN Unchanged(M, entry)
    ELSE IF ~full_read THEN Unchanged(M, entry)
    ELSE IF ~ValidElf(ehdr) THEN Unchanged(M, entry)
    ELSE execve_load(M, l0, ehdr)

\* the state after an execve of task t ended with result r
Execved(t, ehdr, r) ==
    /\ pgt' = r.M.pgt
    /\ refcount' = r.M.refcount
    /\ kfreed' = r.M.kfreed
    /\ elr_el1' = [elr_el1 EXCEPT ![t] = r.elr_el1]
    /\ pt_ev' = [PtEvent("execve", t, NULL, 0, 0) EXCEPT
                    !.ret = r.ret, !.hdr = ehdr, !.freed_user = r.freed_user]
    /\ UNCHANGED <<sched_vars, io_vars, pgtable_l0>>

\* execve called by task t
Execve(t, file, full_read, ehdr) ==
    /\ pgtable_l0[t] # NULL
    /\ Execved(t, ehdr,
               execve(Mem, pgtable_l0[t], elr_el1[t], file, full_read, ehdr))

\* the tasks the page-table operations are applied to
PtTasks == 1..MaxTasks

\* the tasks whose images execve replaces, with the mappings they make
ExecNext ==
    \/ \E t \in PtTasks : MmuInitTask(t)
    \/ \E t \in IntactTasks, virt \in LowerHalf, size \in 1..MaxMapPages,
          prot \in Prots, guard \in BOOLEAN :
              MmuMap(t, virt, size, prot, guard, MaxPhysPages)
    \/ \E t \in IntactTasks, file \in BOOLEAN, full_read \in BOOLEAN,
          ehdr \in Headers : Execve(t, file, full_read, ehdr)

ExecSpec == Init /\ [][ExecNext]_vars

\* operations are applied to page tables that are still allocated
PtNext ==
    \/ \E t \in PtTasks : MmuInitTask(t)
    \/ \E t \in IntactTasks, virt \in LowerHalf, size \in 1..MaxMapPages,
          prot \in Prots, guard \in BOOLEAN :
              MmuMap(t, virt, size, prot, guard, MaxPhysPages)
    \/ \E parent \in IntactTasks, child \in PtTasks :
          MmuDuplicatePagetable(parent, child)
    \/ \E t \in IntactTasks : MmuFreePagetable(t)
    \/ \E t \in IntactTasks, va \in LowerHalf : MmuWriteFault(t, va)

\* the page-table manager on its own: the scheduler state stays as booted
PtSpec == Init /\ [][PtNext]_vars

\* how many kmalloc calls of phys_alloc_page succeed during one mmu_map
\* call; a call for MaxMapPages pages makes 2 * MaxMapPages of them
Budgets == 0..(2 * MaxMapPages)

\* mmu_map under memory pressure: memory runs out during the first mmu_map
\* after some task was set up
MapNext ==
    \/ \E t \in PtTasks : MmuInitTask(t)
    \/ \E t \in IntactTasks, virt \in LowerHalf, size \in 1..MaxMapPages,
          prot \in Prots, guard \in BOOLEAN,
          avail \in {a \in Budgets :
                        a < 2 * MaxMapPages => pt_ev.op = "mmu_init_task"} :
              MmuMap(t, virt, size, prot, guard, avail)

MapSpec == Init /\ [][MapNext]_vars

\* the kinds and arguments callers pass to send_ipi: argument 0 (the whole
\* TLB) or the address of a page
IpiKinds == {IPI_TLB_SHOOTDOWN, IPI_RESCHEDULE}
IpiArgs == {0, 2 ^ PAGE_SHIFT}

\* the interrupt layer alone: send_ipi calls and the handlers they lead to
IpiNext ==
    \/ \E c \in Cpus, target_cpus \in SUBSET Cpus, ipi_id \in IpiKinds,
          arg \in IpiArgs : SendIpi(c, target_cpus, ipi_id, arg)
    \/ \E c \in Cpus : \E m \in sgi[c] : IrqHandler(c, m)

IpiSpec == Init /\ [][IpiNext]_vars

Affinities == {{}} \cup {{d} : d \in Cpus}

\* kmalloc still has one of the first MaxTasks task control blocks
Room == \E t \in FreeSlots : t <= MaxTasks

\* the priorities callers pass: int priority is not range-checked, so one
\* above TASK_MAX_PRIORITY is among them
CreatePrios == Prios \cup {TASK_MAX_PRIORITY + 1}

\* tasks created on either core, switched to, and forking with every
\* allocation succeeding, with room for MaxForkTasks control blocks
ForkNext ==
    \/ \E c \in Cpus, a \in Affinities :
          TaskCreate(c, TASK_MIN_PRIORITY, a, "none")
    \/ \E c \in Cpus : Schedule(c)
    \/ \E c \in Cpus : Fork(c, "none", FALSE)

ForkSpec == Init /\ [][ForkNext]_vars

\* the signals and pids passed to kill, and the handlers tasks install
SigNums == {1, 2}
\* kill(pid, sig): every signal to every pid a task can have (the first
\* pid handed out is 2), and a pid of 0, a pid nobody has, signal 0 and
\* signal NSIG
KillArgs ==
    ((2..(MaxTasks + 1)) \X SigNums)
        \cup {<<0, 1>>, <<1, 1>>, <<2, 0>>, <<2, NSIG>>}
\* signal(sig, handler)
SignalArgs == {<<1, UserHandler>>, <<2, SIG_IGN>>}

\* tasks created and switched to that block, send each other signals,
\* install handlers, take their signals and return from the handlers
SigNext ==
    \/ \E a \in Affinities :
          Room /\ TaskCreate(0, TASK_MIN_PRIORITY, a, "none")
    \/ \E c \in Cpus : Schedule(c)
    \/ \E c \in Cpus : TaskBlock(c, TASK_BLOCKED)
    \/ \E c \in Cpus, a \in KillArgs : Kill(c, a[1], a[2])
    \/ \E c \in Cpus, a \in SignalArgs : Signal(c, a[1], a[2])
    \/ \E c \in Cpus : DeliverSignals(c)
    \/ \E c \in Cpus : Sigreturn(c)

SigSpec == Init /\ [][SigNext]_vars

\* the byte counts passed to pipe_read and pipe_write
PipeCounts == 0..(PIPE_BUFFER_SIZE + 1)

\* init and tasks created and switched to that make a pipe and read and
\* write it, blocking or not
PipeNext ==
    \/ \E c \in Cpus, a \in Affinities :
          Room /\ TaskCreate(c, TASK_MIN_PRIORITY, a, "none")
    \/ \E c \in Cpus : Schedule(c)
    \/ Room /\ KernelMain
    \/ \E c \in Cpus : PipeCreate(c)
    \/ \E c \in Cpus, n \in PipeCounts, nb \in BOOLEAN : PipeRead(c, n, nb)
    \/ \E c \in Cpus, n \in PipeCounts, nb \in BOOLEAN : PipeWrite(c, n, nb)
    \/ \E c \in Cpus : PipeBlock(c)

PipeSpec == Init /\ [][PipeNext]_vars

\* blocking one-byte reads and blocking writes of one byte or a full buffer,
\* by init and tasks created on core 0 for either core
PipeFairNext ==
    \/ \E d \in Cpus : Room /\ TaskCreate(0, TASK_MIN_PRIORITY, {d}, "none")
    \/ \E c \in Cpus : Schedule(c)
    \/ Room /\ KernelMain
    \/ \E c \in Cpus : PipeCreate(c)
    \/ \E c \in Cpus : PipeRead(c, 1, FALSE)
    \/ \E c \in Cpus, n \in {1, PIPE_BUFFER_SIZE} : PipeWrite(c, n, FALSE)
    \/ \E c \in Cpus : PipeBlock(c)

\* every core goes on: a core that can call task_block, schedule(),
\* pipe_read or pipe_write does so sooner or later
PipeFairSpec ==
    /\ Init
    /\ [][PipeFairNext]_vars
    /\ \A c \in Cpus :
          /\ WF_vars(PipeBlock(c))
          /\ WF_vars(Schedule(c))
          /\ WF_vars(PipeRead(c, 1, FALSE))
          /\ WF_vars(PipeWrite(c, 1, FALSE))

Next ==
    \/ \E c \in Cpus : Schedule(c)
    \/ \E c \in Cpus, s \in {TASK_BLOCKED, TASK_ZOMBIE} : TaskBlock(c, s)
    \/ \E c \in Cpus : \E m \in sgi[c] : IrqHandler(c, m)
    \/ \E c \in Cpus, p \in CreatePrios, a \in Affinities, f \in CreateAllocs :
          Room /\ TaskCreate(c, p, a, f)
    \/ \E c \in Cpus, f \in ForkAllocs, trap \in BOOLEAN :
          Room /\ Fork(c, f, trap)
    \/ \E c \in Cpus, t \in Tasks : TaskWakeup(c, t)
    \/ Room /\ BootKernelMain
    \/ Room /\ KernelMain

Spec == Init /\ [][Next]_vars

TypeOK ==
    /\ current_task \in AllTasks \cup {NULL}
    /\ \A c \in Cpus : cpu_sched[c].lock \in {0, 1}
    /\ \A t \in AllTasks : task[t].next \in AllTasks \cup {NULL}

\* ------------------------------------------------------------------ C1

Index(s, x) == CHOOSE i \in 1..Len(s) : s[i] = x

\* s lists the elements of log by ascending priority, ties in log order
SortedStable(s, log) ==
    /\ Len(s) = Len(log)
    /\ Range(s) = Range(log)
    /\ \A i, j \in 1..Len(s) :
          i < j =>
             \/ task[s[i]].priority < task[s[j]].priority
             \/ /\ task[s[i]].priority = task[s[j]].priority
                /\ Index(log, s[i]) < Index(log, s[j])

C1_WitnessFifo ==
    \E c \in Cpus :
        /\ enq_log[c].once
        /\ Len(enq_log[c].order) >= 2
        /\ Queue(c) = enq_log[c].order
        /\ task[Queue(c)[1]].priority = task[Queue(c)[2]].priority

\* ------------------------------------------------------------------ C2

SchedOps == {"schedule", "task_block", "ipi"}

\* the last operation was a schedule() on its core that selected a task
Selected == ev.op \in SchedOps /\ ev.status \in {"eret", "done"}

\* C2: schedule() never selects a task that is not READY when schedule() is
\* entered (the task that is running on entry and is picked again, which the
\* pick itself makes READY, is allowed); the one
\* exception is the core's idle task, selected exactly when the run queue is
\* empty.  In particular a task whose state on entry is BLOCKED or ZOMBIE is
\* never selected.
C2_SelectsOnlyReady ==
    Selected =>
        IF ev.entry_queue = <<>>
        THEN ev.next = IdleOf(ev.cpu)
        ELSE /\ ev.next # IdleOf(ev.cpu)
             /\ \/ ev.entry_state = TASK_READY
                \/ ev.entry_state = TASK_RUNNING /\ ev.next = ev.prev

\* ------------------------------------------------------------------ C3

\* the tasks associated with core c: its idle task, its current task and the
\* tasks linked in its run queue
CoreTasks(c) ==
    {cpu_sched[c].idle_task, cpu_sched[c].current} \cup Range(Queue(c))

\* C3: after every completed schedule() on a core exactly one task associated
\* with that core has state RUNNING, and that task is the core's current.
C3_ExactlyOneRunning ==
    Selected =>
        {t \in CoreTasks(ev.cpu) : task[t].state = TASK_RUNNING}
            = {cpu_sched[ev.cpu].current}

\* ------------------------------------------------------------------ C4

\* how often task t is met when the queue of core c is read head-to-tail
Occurrences(c, t) == Cardinality({i \in 1..Len(Queue(c)) : Queue(c)[i] = t})

InQueue(c, t) == t \in Range(Queue(c))

\* C4: in every reachable state each task is linked into at most one core's
\* run queue and at most once, and its state agrees with its membership: a
\* task in a run queue is READY, and a RUNNING, BLOCKED or ZOMBIE task is in
\* no run queue.
C4_QueueMembership ==
    \A t \in AllTasks :
        /\ Cardinality({c \in Cpus : InQueue(c, t)}) <= 1
        /\ \A c \in Cpus : Occurrences(c, t) <= 1
        /\ (\E c \in Cpus : InQueue(c, t)) => task[t].state = TASK_READY

\* ------------------------------------------------------------------ C5

\* C5: every schedule() releases the core's scheduler spinlock before the
\* chosen task resumes, also when it switches to another task; so no later
\* schedule(), task_wakeup or task_create finds the lock held and waits on it.
C5_LockReleased ==
    /\ Selected => cpu_sched[ev.cpu].lock = 0
    /\ \A c \in Cpus : pc[c] # "spin"

\* ------------------------------------------------------------------ C6

\* the last operation was task_block(TASK_BLOCKED) called by the task that
\* runs on the calling core
RunningTaskBlocked ==
    /\ ev.op = "task_block"
    /\ ev.new_state = TASK_BLOCKED
    /\ ev.arg = exec[ev.cpu]
    /\ ev.arg = ev.prev

\* C6: when the running task calls task_block(TASK_BLOCKED) it is BLOCKED
\* afterwards (its state survives the schedule() that task_block triggers),
\* it is in no run queue, and that schedule() does not select it.
C6_BlockedLeavesQueue ==
    RunningTaskBlocked =>
        /\ task[ev.arg].state = TASK_BLOCKED
        /\ \A c \in Cpus : ~InQueue(c, ev.arg)
        /\ ev.next # ev.arg

\* ------------------------------------------------------------------ C7

\* the core task_wakeup(t) enqueues on
WakeupCpu(t) == Ctz(task[t].cpu_affinity)

\* the last operation was task_wakeup on a BLOCKED task, called on a core
\* other than the task's own
CrossCoreWakeup ==
    /\ ev.op = "task_wakeup"
    /\ ev.entry_state = TASK_BLOCKED
    /\ WakeupCpu(ev.arg) # ev.cpu

\* C7: when a task that blocked through task_block is woken by task_wakeup
\* called on another core, it goes from BLOCKED to READY and is linked into
\* the run queue of its core, and if that core runs its idle task a
\* RESCHEDULE IPI is sent to it.
C7_CrossCoreWakeup ==
    CrossCoreWakeup =>
        /\ task[ev.arg].state = TASK_READY
        /\ InQueue(WakeupCpu(ev.arg), ev.arg)
        /\ cpu_sched[WakeupCpu(ev.arg)].current
              = cpu_sched[WakeupCpu(ev.arg)].idle_task
           => \E m \in sgi[WakeupCpu(ev.arg)] : m.intid = IPI_RESCHEDULE

\* ------------------------------------------------------------------ C8

\* the scheduler driven by task creation and schedule() calls alone
SchedNext ==
    \/ \E c \in Cpus : Schedule(c)
    \/ \E c \in Cpus, p \in Prios, a \in Affinities :
          Room /\ TaskCreate(c, p, a, "none")

\* every running task eventually yields or is preempted: the schedule() of a
\* core that can still execute it is eventually executed
FairSpec ==
    Init /\ [][SchedNext]_vars /\ \A c \in Cpus : WF_vars(Schedule(c))

\* t is READY on the run queue of core c, no task there has a better
\* priority, and another READY task there has the same priority
InBestBand(c, t) ==
    /\ InQueue(c, t)
    /\ task[t].state = TASK_READY
    /\ \A u \in Range(Queue(c)) : task[t].priority <= task[u].priority
    /\ \E u \in Range(Queue(c)) \ {t} :
           /\ task[u].state = TASK_READY
           /\ task[u].priority = task[t].priority

\* C8: a READY task that shares the best priority on a core's run queue is
\* eventually selected by that core, provided running tasks keep yielding
\* or being preempted.
C8_RoundRobin ==
    \A c \in Cpus : \A t \in Tasks :
        InBestBand(c, t) ~>
            (cpu_sched[c].current = t /\ task[t].state = TASK_RUNNING)

\* ------------------------------------------------------------------ C9

EnqueueOps == {"task_create", "fork", "task_wakeup", "boot_kernel_main",
               "kernel_main"}

\* the last operation put ev.arg on the run queue of core c, where it is
\* READY and strictly better than every other task of that queue
NewlyEnqueuedBest(c) ==
    /\ ev.op \in EnqueueOps
    /\ ev.status = "done"
    /\ ev.op = "task_wakeup" => ev.entry_state = TASK_BLOCKED
    /\ InQueue(c, ev.arg)
    /\ task[ev.arg].state = TASK_READY
    /\ \A u \in Range(Queue(c)) \ {ev.arg} :
           task[ev.arg].priority < task[u].priority

\* the task selected has no READY task of the entry queue ahead of it
SelectedBest ==
    Selected => \A u \in ev.entry_ready :
                    task[ev.next].priority <= task[u].priority

\* C9: a schedule() never selects a task while a READY task with a
\* numerically lower priority is on the core's run queue, and a task that
\* was just enqueued with the best priority of the queue is selected by the
\* very next schedule() of that core.
C9_StrictPriority ==
    /\ [] SelectedBest
    /\ [][ (ev'.op \in SchedOps /\ NewlyEnqueuedBest(ev'.cpu))
              => (ev'.status \in {"eret", "done"} /\ ev'.next = ev.arg) ]_vars

\* a schedule() selected a READY task ahead of a READY task with a worse
\* priority that was created, and so enqueued, before it
C9_Witness ==
    /\ Selected
    /\ ev.entry_state = TASK_READY
    /\ \E u \in ev.entry_ready :
           /\ task[ev.next].priority < task[u].priority
           /\ task[u].pid < task[ev.next].pid

\* ----------------------------------------------------------------- C10

\* the lower-half pages of the parent that had a valid leaf on page p before
\* the last operation
SharedLeaves(p) ==
    {va \in LowerHalf : /\ Leaf(pt_ev.pgt, pt_ev.l0, va).valid
                        /\ Leaf(pt_ev.pgt, pt_ev.l0, va).addr = p}

\* C10: after fork duplicated the parent's page table, every valid leaf of
\* the parent's lower half is present in the child at the same virtual
\* address on the same physical page, and every physical page's refcount
\* grew by the number of leaves shared on it and by nothing else.
C10_ForkSharesLeaves ==
    pt_ev.op = "mmu_duplicate_pagetable" =>
        /\ \A va \in LowerHalf :
              Leaf(pt_ev.pgt, pt_ev.l0, va).valid =>
                  /\ Leaf(pgt, pgtable_l0[pt_ev.child], va).valid
                  /\ Leaf(pgt, pgtable_l0[pt_ev.child], va).addr
                         = Leaf(pt_ev.pgt, pt_ev.l0, va).addr
        /\ Len(refcount) = Len(pt_ev.refcount)
        /\ \A p \in 1..Len(pt_ev.refcount) :
              refcount[p] = pt_ev.refcount[p] + Cardinality(SharedLeaves(p))

\* ----------------------------------------------------------------- C11

\* the L1, L2 and L3 nodes that walks of lower-half addresses from root l0
\* pass through in tables P
LowerNodes(P, l0) ==
    ({Descend(P, l0, va, 0) : va \in LowerHalf}
        \cup {Descend(P, Descend(P, l0, va, 0), va, 1) : va \in LowerHalf}
        \cup {Descend(P, Descend(P, Descend(P, l0, va, 0), va, 1), va, 2) :
                 va \in LowerHalf}) \ {NULL}

\* C11: after duplicate(parent, child) every lower-half address that was
\* mapped in the parent walks to the same physical page in the parent and in
\* the child, every table node the parent had holds the entries it held
\* before, and the two trees have no L1, L2 or L3 node of the lower half in
\* common.
C11_IndependentTrees ==
    pt_ev.op = "mmu_duplicate_pagetable" =>
        /\ \A va \in LowerHalf :
              Leaf(pt_ev.pgt, pt_ev.l0, va).valid =>
                  /\ Leaf(pgt, pgtable_l0[pt_ev.task], va).valid
                  /\ Leaf(pgt, pgtable_l0[pt_ev.task], va).addr
                         = Leaf(pt_ev.pgt, pt_ev.l0, va).addr
                  /\ Leaf(pgt, pgtable_l0[pt_ev.child], va).valid
                  /\ Leaf(pgt, pgtable_l0[pt_ev.child], va).addr
                         = Leaf(pt_ev.pgt, pt_ev.l0, va).addr
        /\ \A n \in 1..Len(pt_ev.pgt) : pgt[n] = pt_ev.pgt[n]
        /\ LowerNodes(pgt, pgtable_l0[pt_ev.task])
              \cap LowerNodes(pgt, pgtable_l0[pt_ev.child]) = {}

\* ----------------------------------------------------------------- C12

\* the last two operations were duplicate(parent, child) and free(child)
DuplicateThenFree ==
    /\ pt_ev.op = "mmu_free_pagetable"
    /\ pt_ev.prev_op = "mmu_duplicate_pagetable"
    /\ pt_ev.prev_child = pt_ev.task

\* C12: duplicate(parent, child) followed by free(child) leaves the parent's
\* page table, every entry of every node of it, and the reference count of
\* every physical page as they were before the duplicate.
C12_DuplicateFreeRoundTrip ==
    DuplicateThenFree =>
        /\ pgtable_l0[pt_ev.prev_task] = pt_ev.l0
        /\ \A n \in TreeNodes(pt_ev.pgt, pt_ev.l0) :
              pgt[n] = pt_ev.pgt[n] /\ n \notin kfreed
        /\ refcount = pt_ev.refcount

\* ----------------------------------------------------------------- C13

\* the last two operations were mmu_map on a task and the free of that task
MapThenFree ==
    /\ pt_ev.op = "mmu_free_pagetable"
    /\ pt_ev.prev_op = "mmu_map"
    /\ pt_ev.prev_task = pt_ev.task

\* the physical pages allocated since the operation before the last began
NewPages == (Len(pt_ev.refcount) + 1)..Len(refcount)

\* C13: after map followed by free of the same task every physical page the
\* map allocated, in the leaf walk or in map itself, has reference count 0
\* and was given back with phys_free_page.
C13_MapFreeNoLeak ==
    MapThenFree =>
        \A p \in NewPages : refcount[p] = 0 /\ p \in pt_ev.phys_freed

\* ----------------------------------------------------------------- C15

\* every valid leaf reachable from root l0 in tables P is on a page that rc
\* counts at least once
LeavesCounted(P, rc, l0) ==
    \A va \in VPages : Leaf(P, l0, va).valid => rc[Leaf(P, l0, va).addr] >= 1

\* C15: every physical page that a valid leaf of a task references has a
\* reference count of at least 1, between operations and also when
\* mmu_walk_pte has returned inside mmu_map, and a page is handed to
\* phys_free_page only with reference count 0.
C15_ReferencedPagesCounted ==
    /\ \A t \in IntactTasks : LeavesCounted(pgt, refcount, pgtable_l0[t])
    /\ pt_ev.op = "mmu_map" =>
          LeavesCounted(pt_ev.walked.pgt, pt_ev.walked.refcount, pt_ev.l0)
    /\ \A p \in pt_ev.phys_freed : refcount[p] = 0

\* ----------------------------------------------------------------- C14

\* the last operation was a write, by parent or child of the fork before
\* it, to a page the parent had mapped when it forked
WriteAfterFork ==
    /\ pt_ev.op = "write_fault"
    /\ pt_ev.prev_op = "mmu_duplicate_pagetable"

\* the page that fork shared at the written address
SharedPage == Leaf(pt_ev.pgt, pt_ev.l0, pt_ev.virt).addr

\* the other task of the fork
OtherTask == IF pt_ev.task = pt_ev.prev_task THEN pt_ev.prev_child
             ELSE pt_ev.prev_task

\* C14: a write through a copy-on-write mapping whose page has a reference
\* count above 1 makes exactly one page copy, points the leaf of the writing
\* task, and only that leaf, at the new page with write permission, and
\* takes exactly 1 off the reference count of the shared page; with a
\* reference count of 1 it makes no copy and restores write permission.
C14_CowWrite ==
    WriteAfterFork =>
        /\ Leaf(pgt, pgtable_l0[pt_ev.task], pt_ev.virt).valid
        /\ ~Leaf(pgt, pgtable_l0[pt_ev.task], pt_ev.virt).ro
        /\ IF pt_ev.fault_rc[SharedPage] > 1
           THEN /\ pt_ev.copies = 1
                /\ Leaf(pgt, pgtable_l0[pt_ev.task], pt_ev.virt).addr
                       # SharedPage
                /\ Leaf(pgt, pgtable_l0[OtherTask], pt_ev.virt).addr
                       = SharedPage
                /\ refcount[SharedPage] = pt_ev.fault_rc[SharedPage] - 1
           ELSE /\ pt_ev.copies = 0
                /\ Leaf(pgt, pgtable_l0[pt_ev.task], pt_ev.virt).addr
                       = SharedPage
                /\ refcount[SharedPage] = pt_ev.fault_rc[SharedPage]

\* ----------------------------------------------------------------- C17

\* the core a task_create call has to enqueue on
CreateCpu == IF ev.affinity = {} THEN ev.cpu ELSE Ctz(ev.affinity)

\* C17: task_create enqueues the new task, in state READY, on the run queue
\* of the core named by the lowest set bit of the affinity mask, the creating
\* core when the mask is 0; if one of its allocations fails it returns no
\* task and the run queue stays as it was, so that no partly built task is
\* visible in it.
C17_CreateEnqueuesOrFails ==
    ev.op = "task_create" =>
        IF ev.fail = "none"
        THEN /\ ev.arg # NULL
             /\ InQueue(CreateCpu, ev.arg)
             /\ task[ev.arg].state = TASK_READY
        ELSE /\ ev.arg = NULL
             /\ Queue(CreateCpu) = ev.entry_queue

\* ----------------------------------------------------------------- C18

\* the step is a task_create call with a priority outside
\* TASK_MIN_PRIORITY..TASK_MAX_PRIORITY
BadPriorityCreate ==
    /\ ev'.op = "task_create"
    /\ ev'.priority \notin TASK_MIN_PRIORITY..TASK_MAX_PRIORITY

\* C18: a task_create call with an out-of-range priority is rejected before
\* any state mutation: no task is allocated, no pid is consumed and no run
\* queue changes.
C18_BadPriorityRejected ==
    [][BadPriorityCreate =>
          /\ \A t \in Tasks : task'[t].alloc = task[t].alloc
          /\ next_pid' = next_pid
          /\ \A c \in Cpus :
                Chain(task', cpu_sched'[c].runqueue_head, Fuel) = Queue(c)]_vars

\* ----------------------------------------------------------------- C19

\* the task control blocks in use
Allocated == {t \in Tasks : task[t].alloc}

\* a control block that the step allocates gets a pid above that of every
\* block allocated before it
LaterPidLarger ==
    \A t \in Tasks :
        task'[t].alloc /\ ~task[t].alloc =>
            \A u \in Allocated : task[u].pid < task'[t].pid

\* C19: pids are unique and increasing: over every interleaving of
\* task_create and fork calls on the cores no two tasks have the same pid, and
\* a task created later has a strictly larger pid than every task created
\* before it.
C19_PidsUniqueIncreasing ==
    /\ [](\A t, u \in Allocated : t # u => task[t].pid # task[u].pid)
    /\ [][LaterPidLarger]_vars

\* a fork on core 1 has given its child a pid, the parent came from
\* task_create, and a fork that failed took the pid between theirs
C19_Witness ==
    /\ ev.op = "fork" /\ ev.fail = "none" /\ ev.cpu = 1
    /\ ev.arg \in Allocated
    /\ task[ev.arg].parent \in Allocated
    /\ task[task[ev.arg].parent].parent = NULL
    /\ task[ev.arg].pid > task[task[ev.arg].parent].pid + 1

\* ----------------------------------------------------------------- C20

\* how often task t is in the child list of task p
ChildEntries(p, t) ==
    Cardinality({i \in 1..Len(task[p].children) : task[p].children[i] = t})

\* the last operation was a fork that returned its child's pid
ForkSucceeded == ev.op = "fork" /\ ev.status = "done"

\* the step is a fork that returns -1
ForkFails == ev'.op = "fork" /\ ev'.status = "nomem"

\* C20: a fork() in which no allocation fails succeeds; on success it
\* returns the child's pid to the calling task, the child's saved registers
\* are the parent's except that x0 is 0, the child is in the parent's child
\* list exactly once and in the run queue exactly once, READY; a fork() that
\* returns -1 leaves every run queue and the parent's child list as they
\* were.
C20_ForkContract ==
    /\ [](ev.op = "fork" /\ ev.fail = "none" => ev.status = "done")
    /\ [](ForkSucceeded =>
             /\ ev.ret = task[ev.arg].pid
             /\ task[ev.arg].parent = ev.caller
             /\ task[ev.arg].x0 = 0
             /\ ChildEntries(ev.caller, ev.arg) = 1
             /\ Occurrences(ev.cpu, ev.arg) = 1
             /\ \A c \in Cpus \ {ev.cpu} : ~InQueue(c, ev.arg)
             /\ task[ev.arg].state = TASK_READY)
    /\ [][ForkFails =>
             /\ \A c \in Cpus :
                   Chain(task', cpu_sched'[c].runqueue_head, Fuel) = Queue(c)
             /\ \A p \in Tasks : task[p].alloc =>
                   task'[p].children = task[p].children]_vars

\* ----------------------------------------------------------------- C16

\* the header fails validation: bad magic, wrong class, byte order, machine
\* or type
BadHeader(h) ==
    \/ h.magic # "ELFMAG"
    \/ h.class # "ELFCLASS64"
    \/ h.data # "ELFDATA2LSB"
    \/ h.machine # "EM_AARCH64"
    \/ h.type # "ET_EXEC"

FreeStep == pt_ev'.op = "mmu_free_pagetable"

\* C21: tearing down a task's page table never touches the upper half: it
\* frees only table nodes reachable from the lower-half root entries, so
\* every node reachable from root entries 256..511 is still allocated
\* afterwards and no entry of such a node has changed.
C21_FreeSparesUpperHalf ==
    [][FreeStep =>
          \A n \in UpperNodes(pgt, pgtable_l0[pt_ev'.task]) :
              n \notin kfreed' /\ pgt'[n] = pgt[n]]_vars

\* ----------------------------------------------------------------- C22

\* C22: after any sequence of mmu_init_task, mmu_map, duplicate and free the
\* upper-half root entries of every live task's page table equal the
\* upper-half entries of the kernel table.
C22_UpperHalfAliasesKernel ==
    \A t \in IntactTasks :
        \A i \in UpperIdx : pgt[pgtable_l0[t]][i] = kernel_pgt_l0[i]

\* ----------------------------------------------------------------- C23

\* the pages of the range [virt, virt + size)
PageRange(virt, size) == virt..(virt + size - 1)

\* the pages whose leaf the last operation changed
ChangedLeaves ==
    {va \in VPages : Leaf(pgt, pt_ev.l0, va) # Leaf(pt_ev.pgt, pt_ev.l0, va)}

\* C23: the TLB invalidation that mmu_map(task, virt, size, ...) issues after
\* writing its leaves covers exactly the range [virt, virt + size) the
\* caller passed, so that every page whose leaf changed is invalidated.
C23_TlbCoversMappedRange ==
    pt_ev.op = "mmu_map" =>
        /\ PageRange(pt_ev.tlb_virt, pt_ev.tlb_size)
              = PageRange(pt_ev.virt, pt_ev.size)
        /\ ChangedLeaves \subseteq PageRange(pt_ev.tlb_virt, pt_ev.tlb_size)

\* ----------------------------------------------------------------- C24

\* the last operation was an mmu_map during which an allocation failed
MapOutOfMemory == pt_ev.op = "mmu_map" /\ pt_ev.nomem

\* C24: when a backing allocation fails partway through mmu_map the call
\* returns an error and stops mapping: no leaf it wrote refers to the failed
\* allocation.
C24_MapFailsClosed ==
    MapOutOfMemory =>
        /\ pt_ev.ret = 0 - 1
        /\ \A va \in ChangedLeaves : Leaf(pgt, pt_ev.l0, va).addr # BadPage

\* ----------------------------------------------------------------- C25

\* the last operation was an mmu_map in which every allocation succeeded
Mapped == pt_ev.op = "mmu_map" /\ ~pt_ev.nomem

\* C25: after mmu_map with guard set every leaf of the range is present but
\* not valid and the call has taken no physical page and no reference; after
\* mmu_map without guard every leaf of the range is valid, is execute-never
\* exactly when PROT_EXEC is missing and is read-only exactly when PROT_WRITE
\* is missing.
C25_GuardAndProtection ==
    Mapped =>
        \A va \in PageRange(pt_ev.virt, pt_ev.size) :
            IF pt_ev.guard
            THEN /\ LeafNode(pgt, pt_ev.l0, va) # NULL
                 /\ ~Leaf(pgt, pt_ev.l0, va).valid
                 /\ refcount = pt_ev.refcount
            ELSE /\ Leaf(pgt, pt_ev.l0, va).valid
                 /\ Leaf(pgt, pt_ev.l0, va).uxn = ~HasProt(pt_ev.prot, PROT_EXEC)
                 /\ Leaf(pgt, pt_ev.l0, va).ro = ~HasProt(pt_ev.prot, PROT_WRITE)

\* ----------------------------------------------------------------- C26

\* the writes of a send_ipi that raise an interrupt on core c
Raised(e, c) ==
    {i \in 1..Len(e.issued) : c \in sgi_targets(e.cpu, e.issued[i].val)}

\* C26: send_ipi(target_mask, kind, arg) raises exactly one interrupt on each
\* core whose bit is set in target_mask and none on a core whose bit is
\* clear, every interrupt it raises has the number `kind`, and a barrier
\* follows each write.
C26_OneSgiPerTarget ==
    ev.op = "send_ipi" =>
        /\ \A c \in Cpus :
              Cardinality(Raised(ev.irq, c))
                 = IF c \in ev.irq.target_cpus THEN 1 ELSE 0
        /\ \A i \in 1..Len(ev.irq.issued) :
              /\ sgi_intid(ev.irq.issued[i].val) = ev.irq.ipi_id
              /\ ev.irq.issued[i].dsb

\* ----------------------------------------------------------------- C27

\* the last operation was the handler of an interrupt a send_ipi raised
Handled == ev.op \in {"irq_handler", "ipi"}

\* C27: the handler of the receiving core acts on the kind and argument
\* the sender passed to send_ipi: for RESCHEDULE it calls schedule(), for
\* TLB_SHOOTDOWN with argument 0 it invalidates the whole local TLB, for
\* TLB_SHOOTDOWN with an address it invalidates the translation of that
\* address alone.
C27_HandlerActsOnMessage ==
    Handled =>
        /\ ev.irq.msg.ipi_id = IPI_RESCHEDULE => ev.irq.did = "schedule"
        /\ ev.irq.msg.ipi_id = IPI_TLB_SHOOTDOWN /\ ev.irq.msg.arg = 0
              => ev.irq.did = "tlbi vmalle1"
        /\ ev.irq.msg.ipi_id = IPI_TLB_SHOOTDOWN /\ ev.irq.msg.arg # 0
              => /\ ev.irq.did = "tlbi vae1"
                 /\ ev.irq.page = ev.irq.msg.arg \div (2 ^ PAGE_SHIFT)

\* ----------------------------------------------------------------- C28

\* the last operation read or wrote the `current` of a core's scheduler
\* outside schedule(): the idle check of task_wakeup, the assignment of
\* kernel_main
AccessedCurrent ==
    ev.op \in {"task_wakeup", "boot_kernel_main"} /\ ev.status = "done"

\* C28: every read and write of a core's scheduler state is made while that
\* core's scheduler lock is held, the idle check of task_wakeup and the
\* assignment of `current` at boot included.
C28_SchedStateUnderLock == AccessedCurrent => ev.access_lock = 1

\* ----------------------------------------------------------------- C29

\* the last operation was a task_wakeup that returned
WakeupDone == ev.op = "task_wakeup" /\ ev.status = "done"

\* what a task_wakeup that returned has done
WakeupEffect ==
    WakeupDone =>
        IF ev.entry_state = TASK_BLOCKED
        THEN /\ task[ev.arg].state = TASK_READY
             /\ Occurrences(WakeupCpu(ev.arg), ev.arg) = 1
             /\ \A c \in Cpus \ {WakeupCpu(ev.arg)} : ~InQueue(c, ev.arg)
        ELSE /\ task[ev.arg].state = ev.entry_state
             /\ Queue(WakeupCpu(ev.arg)) = ev.entry_queue

\* a task_wakeup of the task the previous task_wakeup was called on
\* changes nothing
WakeupTwice ==
    WakeupDone /\ ev'.op = "task_wakeup" /\ ev'.status = "done"
               /\ ev'.arg = ev.arg
        => task' = task /\ cpu_sched' = cpu_sched

\* C29: task_wakeup acts only on a BLOCKED task, which it links exactly once
\* into the run queue of the core of its lowest affinity bit and makes
\* READY; on a task in any other state it changes no queue and no state; a
\* second call on the same task changes nothing.
C29_WakeupOnlyBlocked == []WakeupEffect /\ [][WakeupTwice]_vars

\* ----------------------------------------------------------------- C30

Runnable == {TASK_RUNNING, TASK_READY}

\* C31: after a schedule() the task that was running before is in the run
\* queue exactly when it was still runnable on entry (the idle task is never
\* in it); the core leaves through a context switch exactly when the task
\* chosen differs from the previous one; when they are the same the task is
\* RUNNING afterwards and the schedule counter has gone up by exactly 1.
C31_ReinsertAndSwitch ==
    /\ ev.op \in SchedOps /\ ev.prev \notin IdleTasks
          => (InQueue(ev.cpu, ev.prev) <=> ev.prev_state \in Runnable)
    /\ Selected =>
          /\ (ev.status = "eret") <=> (ev.prev # ev.next)
          /\ ev.prev = ev.next
                => task[ev.prev].state = TASK_RUNNING /\ ev.counted = 1

\* ----------------------------------------------------------------- C32

\* C32: on every core that executes a task's code the current-task pointer
\* that task_block, fork and execve use is the `current` of that core's
\* scheduler, and the task a task_block changed is the one that was running
\* on the calling core.
C32_CurrentTaskPerCore ==
    /\ \A c \in Cpus : InTask(c) => current_task = cpu_sched[c].current
    /\ ev.op = "task_block" => ev.arg = ev.prev

\* ----------------------------------------------------------------- C33

WellFormed(c) ==
    /\ (cpu_sched[c].runqueue_head = NULL) <=> (cpu_sched[c].runqueue_tail = NULL)
    /\ cpu_sched[c].runqueue_head # NULL =>
          /\ task[cpu_sched[c].runqueue_head].prev = NULL
          /\ task[cpu_sched[c].runqueue_tail].next = NULL
          /\ Queue(c)[Len(Queue(c))] = cpu_sched[c].runqueue_tail
    /\ Len(Queue(c)) = Cardinality(Range(Queue(c)))
    /\ \A t \in Range(Queue(c)) :
          task[t].next # NULL => task[task[t].next].prev = t

\* C34: in every reachable state the run queue of every core is a
\* well-formed doubly-linked list: head->prev and tail->next are NULL, the
\* next and prev pointers of neighbours agree, the chain from the head ends
\* at the tail without a cycle, and head and tail are NULL together.
C34_QueueWellFormed == \A c \in Cpus : WellFormed(c)

\* ----------------------------------------------------------------- C35

\* a schedule() that completed left the run queue of its core with the
\* tasks it had on entry, each as often as before, and selected the idle
\* task only on an empty queue
QueueKept ==
    Selected =>
        /\ Range(Queue(ev.cpu)) = Range(ev.entry_queue)
        /\ Len(Queue(ev.cpu)) = Len(ev.entry_queue)
        /\ \A t \in Range(ev.entry_queue) :
              Occurrences(ev.cpu, t)
                 = Cardinality({i \in 1..Len(ev.entry_queue) :
                                   ev.entry_queue[i] = t})
        /\ ev.entry_queue # <<>> => ev.next \notin IdleTasks

\* a run queue that is not empty stays so
NeverEmptied ==
    \A c \in Cpus : cpu_sched[c].runqueue_head # NULL
                        => cpu_sched'[c].runqueue_head # NULL

\* C35: schedule() neither loses nor duplicates tasks: the tasks linked in
\* the run queue after it are those linked before it; a queue that had a task
\* enqueued is never empty again, and the idle task is not selected on it.
C35_ScheduleKeepsQueue == []QueueKept /\ [][NeverEmptied]_vars

\* a schedule() took the head of a queue of two tasks and linked it again
\* behind the other
C35_Witness ==
    /\ Selected
    /\ Len(ev.entry_queue) = 2
    /\ Queue(ev.cpu) = <<ev.entry_queue[2], ev.entry_queue[1]>>
    /\ ev.next = ev.entry_queue[1]

\* ----------------------------------------------------------------- C36

\* the last operation was a fork that built its child
Forked == ev.op = "fork" /\ ev.arg # NULL

\* C36: the task fork() creates starts with an empty child list of its own,
\* whatever children its parent has.
C36_ChildListEmpty == Forked => task[ev.arg].children = <<>>

\* ------------------------------------------------------------------ C37
\* C37: kill(pid, sig) with sig outside 1..31, pid <= 0, a pid no task has or
\* the caller's own pid returns -1 and changes no task's pending set or
\* state; any other kill sets exactly bit sig in the target's pending set,
\* leaving its other bits and every other task's pending set as they were,
\* and when it has returned a target that was BLOCKED is READY with the
\* signal pending.
KillCalled == ev.op = "kill"

KillRejected ==
    \/ ev.sig < 1
    \/ ev.sig > NSIG - 1
    \/ ev.pid <= 0
    \/ ev.arg = NULL
    \/ ev.arg = ev.caller

C37_Kill ==
    KillCalled =>
        IF KillRejected
        THEN /\ ev.ret = 0 - 1
             /\ \A t \in Tasks :
                   /\ task[t].signal_state.pending =
                          ev.entry_task[t].signal_state.pending
                   /\ task[t].state = ev.entry_task[t].state
        ELSE /\ \A t \in Tasks :
                   task[t].signal_state.pending =
                       IF t = ev.arg
                       THEN ev.entry_task[t].signal_state.pending \cup {ev.sig}
                       ELSE ev.entry_task[t].signal_state.pending
             /\ (ev.status = "done" /\ ev.entry_state = TASK_BLOCKED)
                    => /\ task[ev.arg].state = TASK_READY
                       /\ ev.sig \in task[ev.arg].signal_state.pending

\* ------------------------------------------------------------------ C38
\* C38: deliver_signals takes at most one signal per call, the lowest-numbered
\* one that is pending and not in the task's blocked mask: it clears that
\* signal's pending bit and no other, so every blocked signal stays pending;
\* when the signal has a user handler the call adds it to the blocked mask
\* and saves the mask it found, and sigreturn puts the saved mask back.  The
\* blocked mask is the one deliver_signals masks the pending set with.
SignalsTaken == ev.op = "deliver_signals"

HandlerReturned == ev.op = "sigreturn"

C38_DeliverOne ==
    /\ SignalsTaken =>
          /\ IF Deliverable(ev.entry_task[ev.arg].signal_state) = {}
             THEN /\ ev.did = "none"
                  /\ task[ev.arg].signal_state.pending =
                         ev.entry_task[ev.arg].signal_state.pending
             ELSE /\ ev.did # "none"
                  /\ ev.sig =
                         Ctz(Deliverable(ev.entry_task[ev.arg].signal_state))
                  /\ task[ev.arg].signal_state.pending =
                         ev.entry_task[ev.arg].signal_state.pending \ {ev.sig}
          /\ ev.entry_task[ev.arg].signal_state.pending
                 \cap ev.entry_task[ev.arg].signal_state.blocked
                 \subseteq task[ev.arg].signal_state.pending
          /\ ev.did = "handler" =>
                /\ task[ev.arg].signal_state.blocked =
                       ev.entry_task[ev.arg].signal_state.blocked \cup {ev.sig}
                /\ task[ev.arg].signal_state.old_mask =
                       ev.entry_task[ev.arg].signal_state.blocked
    /\ HandlerReturned =>
          task[ev.arg].signal_state.blocked =
              ev.entry_task[ev.arg].signal_state.old_mask

\* ------------------------------------------------------------------ C39
\* C39: the pipe is a bounded FIFO.  Whatever pipe_read and pipe_write calls
\* came before, 0 <= count <= PIPE_BUFFER_SIZE, read_pos and write_pos are
\* below PIPE_BUFFER_SIZE and write_pos = (read_pos + count) mod
\* PIPE_BUFFER_SIZE; the bytes in the buffer are the written ones not yet
\* read, in the order they were written, and a read takes out the oldest of
\* them; a pipe_read that returns on a pipe with data returns
\* min(requested, count), a pipe_write that returns on a pipe with room
\* returns min(requested, free space); with O_NONBLOCK a read on an empty
\* pipe and a write on a full one return -1 and leave the buffer as it was.

\* the bytes in the pipe, oldest first
Contents(P) ==
    [i \in 1..P.count |-> P.data[(P.read_pos + i - 1) % PIPE_BUFFER_SIZE]]

\* bytes from + 1 .. from + n of the stream the writers wrote
Stream(from, n) == [i \in 1..n |-> (from + i) % 256]

PipeRead_Returned == pipe_ev.op = "pipe_read" /\ pipe_ev.status = "done"

PipeWrite_Returned == pipe_ev.op = "pipe_write" /\ pipe_ev.status = "done"

C39_BoundedFifo ==
    pipe.alloc =>
        /\ pipe.count \in 0..PIPE_BUFFER_SIZE
        /\ pipe.read_pos \in PipeIdx
        /\ pipe.write_pos \in PipeIdx
        /\ pipe.write_pos = (pipe.read_pos + pipe.count) % PIPE_BUFFER_SIZE
        /\ pipe.count = pipe_ev.wrote - pipe_ev.taken
        /\ Contents(pipe) = Stream(pipe_ev.taken, pipe.count)
        /\ pipe_ev.op = "pipe_read" =>
              pipe_ev.buf = Stream(pipe_ev.taken - Len(pipe_ev.buf),
                                   Len(pipe_ev.buf))
        /\ PipeRead_Returned =>
              IF pipe_ev.entry.count = 0
              THEN /\ pipe_ev.nonblock
                   /\ pipe_ev.ret = 0 - 1
                   /\ pipe = pipe_ev.entry
              ELSE /\ pipe_ev.ret = Smaller(pipe_ev.count, pipe_ev.entry.count)
                   /\ Len(pipe_ev.buf) = pipe_ev.ret
        /\ PipeWrite_Returned =>
              IF pipe_ev.entry.count = PIPE_BUFFER_SIZE
              THEN /\ pipe_ev.nonblock
                   /\ pipe_ev.ret = 0 - 1
                   /\ pipe = pipe_ev.entry
              ELSE /\ pipe_ev.ret =
                          Smaller(pipe_ev.count,
                                  PIPE_BUFFER_SIZE - pipe_ev.entry.count)
                   /\ pipe.count = pipe_ev.entry.count + pipe_ev.ret
        /\ (pipe_ev.op \in {"pipe_read", "pipe_write"}
                /\ pipe_ev.entry.lock = 0 /\ pipe_ev.nonblock
                /\ pipe_ev.entry.count =
                       (IF pipe_ev.op = "pipe_read" THEN 0
                        ELSE PIPE_BUFFER_SIZE))
               => pipe_ev.status = "done" /\ pipe_ev.ret = 0 - 1

\* a read returned two bytes that lay across the end of the buffer, after
\* the pipe was full
C39_Witness ==
    /\ PipeRead_Returned
    /\ pipe_ev.ret = 2
    /\ pipe_ev.entry.read_pos = PIPE_BUFFER_SIZE - 1
    /\ pipe_ev.wrote > PIPE_BUFFER_SIZE

\* ------------------------------------------------------------------ C40
\* C40: no wakeup is lost on a pipe.  A reader that found the pipe empty,
\* registered as read_waiter and released the pipe lock, and for which a
\* writer on another core has put bytes into the pipe before the reader's
\* task_block, goes on to return bytes from a pipe_read on its core; and a
\* writer that found the pipe full and registered as write_waiter goes on to
\* return from a pipe_write with bytes written once a read has made room.
ReaderRaced(c) == pc[c] = "read_block" /\ pipe.count > 0

ReaderResumed(c) ==
    /\ PipeRead_Returned
    /\ pipe_ev.cpu = c
    /\ pipe_ev.ret > 0

WriterRaced(c) == pc[c] = "write_block" /\ pipe.count < PIPE_BUFFER_SIZE

WriterResumed(c) ==
    /\ PipeWrite_Returned
    /\ pipe_ev.cpu = c
    /\ pipe_ev.ret > 0

C40_NoLostWakeup ==
    \A c \in Cpus :
        /\ ReaderRaced(c) ~> ReaderResumed(c)
        /\ WriterRaced(c) ~> WriterResumed(c)
====
